---------------------------- MODULE Spec2Model ----------------------------
(***************************************************************************)
(* A model of valve-server-query (src/src/index.js, request-packet.js,     *)
(* response-packet.js): the ServerQuery dispatcher, its per-endpoint query *)
(* chain, the multi-packet reassembler and the packet codecs.              *)
(*                                                                         *)
(* Buffers are sequences of bytes (0..255); a cursor is a 0-based index    *)
(* into the buffer, as in the source.  A JavaScript `undefined` slot is    *)
(* the value Undef.  An exception that escapes an event-loop callback is   *)
(* an uncaught exception of the Node.js process: the host either exits     *)
(* (Node's default) or carries on (an 'uncaughtException' handler).        *)
(***************************************************************************)
EXTENDS Integers, Sequences, FiniteSets, TLC

VARIABLES
  proc,         \* "running" | "exited": the Node.js process
  socket,       \* this.socket: "null" | "open" | "closed"
  timeout,      \* this.timeout: "null" | "armed" | "fired" | "cleared"
  connections,  \* this.connections: Undef or <<the array of connections>>
  qpc,          \* position of the query() coroutine: "idle" | "resolving" | "returned"
  qi,           \* loop index i of query() while it awaits _resolveHost (1-based)
  inflight,     \* datagrams of the answering server not yet delivered
  served,       \* number of requests the answering server has answered
  stale,        \* number of pending timers whose handle this.timeout no longer holds
  events,       \* history: the events emitted, oldest first
  sent,         \* history: the datagrams handed to the open socket, oldest first
  closeCalls,   \* history: the number of calls of socket.close()
  queries,      \* history: the number of calls of query()
  nmsgs,        \* history: the number of datagrams the socket delivered
  fragments,    \* history: the multi-packet datagrams delivered, as a set
  yields,       \* history: the combined buffers _parseMultiPacket returned
  last,         \* history: the last callback that ran and what it did
  arg,          \* a function called on its own: the call, Undef when there is none
  res           \* what that call returned or threw, Undef before it ran

vars == <<proc, socket, timeout, connections, qpc, qi, inflight, served, stale,
          events, sent, closeCalls, queries, nmsgs, fragments, yields, last, arg, res>>

hist == <<events, sent, closeCalls, queries, nmsgs, fragments, yields, last, arg, res>>

-----------------------------------------------------------------------------
(* Bounds of the model *)

\* datagrams delivered to _handleSocketMessage in one run
MaxMsgs == 4

\* requests the answering server of SpecWB answers in one run
MaxServed == 9

\* socket errors in a run
MaxErrors == 1

\* bytes of a buffer a reader is called on
MaxLen == 3

\* calls of query() on one instance
MaxQueries == 3

-----------------------------------------------------------------------------
(* Values *)

\* A slot that may be JavaScript `undefined` holds a sequence: << >> for
\* undefined, <<v>> for the value v.
Undef == << >>

Some(v) == << v >>

Get(s) == s[1]

\* a JavaScript number that may be NaN
Num(n) == [nan |-> FALSE, n |-> n]

NaN == [nan |-> TRUE, n |-> 0]

\* truthiness of a slot holding an object (info, player, rules, a Buffer)
TruthyObj(s) == s # Undef

\* truthiness of a slot holding an integer (a challenge): undefined and 0
\* are falsy
TruthyInt(s) == s # Undef /\ Get(s) # 0

\* truthiness of a slot holding a number (ping): undefined, 0 and NaN are
\* falsy
TruthyNum(s) == s # Undef /\ ~Get(s).nan /\ Get(s).n # 0

-----------------------------------------------------------------------------
(* Little-endian integers (Buffer.readInt32LE / writeInt32LE and friends) *)

U16(b0, b1) == b0 + 256 * b1

\* signed 16-bit value of two bytes
I16(b0, b1) == IF b1 >= 128 THEN U16(b0, b1) - 65536 ELSE U16(b0, b1)

\* signed 32-bit value of four bytes (the top byte is folded first so that
\* no intermediate exceeds 32 bits)
I32(b0, b1, b2, b3) ==
  b0 + 256 * b1 + 65536 * b2
     + 16777216 * (IF b3 >= 128 THEN b3 - 256 ELSE b3)

\* the four bytes Buffer.writeInt32LE(v) writes, v a signed 32-bit integer
WriteInt32LE(v) ==
  LET top == IF v < 0 THEN 255 - ((-(v + 1)) \div 16777216)
                      ELSE v \div 16777216
      low == IF v < 0 THEN 16777215 - ((-(v + 1)) % 16777216)
                      ELSE v % 16777216
  IN  << low % 256, (low \div 256) % 256, low \div 65536, top >>

-----------------------------------------------------------------------------
(* ResponsePacket: a buffer and a cursor.  ok = FALSE once a read has      *)
(* thrown (a RangeError of the Buffer reads): every later read is skipped.  *)

ResponsePacket(data) == [data |-> data, index |-> 0, ok |-> TRUE]

Thrown(p) == [p EXCEPT !.ok = FALSE]

\* readInt(bytes) for bytes in {1, 2, 4}: the value and the advanced packet
readInt(p, bytes) ==
  IF ~p.ok \/ p.index + bytes > Len(p.data)
  THEN [p |-> Thrown(p), v |-> 0]
  ELSE LET d == p.data
           i == p.index
           v == IF bytes = 4 THEN I32(d[i+1], d[i+2], d[i+3], d[i+4])
                ELSE IF bytes = 2 THEN I16(d[i+1], d[i+2])
                ELSE d[i+1]
       IN  [p |-> [p EXCEPT !.index = i + bytes], v |-> v]

\* readInt(8): new Uint64LE(data, index) wraps the buffer without reading
\* it; the value is kept as its eight bytes
readInt8(p) ==
  IF ~p.ok THEN [p |-> p, v |-> << >>]
  ELSE [p |-> [p EXCEPT !.index = p.index + 8],
        v |-> [k \in 1..8 |-> IF p.index + k <= Len(p.data)
                               THEN Some(p.data[p.index + k]) ELSE Undef]]

\* readFloat(): four bytes, kept as their bit pattern
readFloat(p) == readInt(p, 4)

\* readChar(): String.fromCharCode of one byte, kept as the char code
readChar(p) == readInt(p, 1)

\* index after readString's loop started at cursor i: one past the first
\* 0x00 at or after i, or the buffer's length when there is none
RECURSIVE ScanString(_, _)
ScanString(d, i) ==
  IF i >= Len(d) THEN i
  ELSE IF d[i+1] = 0 THEN i + 1
  ELSE ScanString(d, i + 1)

\* Buffer.slice(start, end) with Node's clamping of negative and far ends
Slice(d, start, end) ==
  LET n  == Len(d)
      s  == IF start < 0 THEN (IF n + start < 0 THEN 0 ELSE n + start)
            ELSE IF start > n THEN n ELSE start
      e  == IF end < 0 THEN (IF n + end < 0 THEN 0 ELSE n + end)
            ELSE IF end > n THEN n ELSE end
  IN  IF e <= s THEN << >> ELSE SubSeq(d, s + 1, e)

\* readString(): the bytes from the cursor to index - 1, where index is
\* the cursor after the loop
readString(p) ==
  IF ~p.ok THEN [p |-> p, v |-> << >>]
  ELSE LET j == ScanString(p.data, p.index)
       IN  [p |-> [p EXCEPT !.index = j],
            v |-> Slice(p.data, p.index, j - 1)]

-----------------------------------------------------------------------------
(* RequestPacket: the buffer `new RequestPacket(type, challenge)` returns; *)
(* challenge is a slot: undefined takes the default parameter -1.          *)

\* "Source Engine Query" in ASCII
SourceEngineQuery ==
  << 83, 111, 117, 114, 99, 101, 32, 69, 110, 103, 105, 110, 101, 32,
     81, 117, 101, 114, 121 >>

\* a variant of RequestPacket that writes the challenge big-endian
RequestPacketBigEndian(type, challenge) ==
  LET c == IF challenge = Undef THEN -1 ELSE Get(challenge)
      b == WriteInt32LE(c)
  IN  CASE type = "info"      -> WriteInt32LE(-1) \o <<84>> \o SourceEngineQuery \o <<0>>
        [] type = "player"    -> WriteInt32LE(-1) \o <<85, b[4], b[3], b[2], b[1]>>
        [] type = "rules"     -> WriteInt32LE(-1) \o <<86, b[4], b[3], b[2], b[1]>>
        [] type = "challenge" -> WriteInt32LE(-1) \o <<87>>
        [] type = "ping"      -> WriteInt32LE(-1) \o <<105>>
        [] OTHER              -> << -1 >>

\* the constructor returns the buffer it built; for a type that is none of
\* the five its switch matches nothing and `new` gives the RequestPacket
\* object itself, whose data is null: a value that is no Buffer
RequestPacket(type, challenge) ==
  LET c == IF challenge = Undef THEN -1 ELSE Get(challenge)
  IN  CASE type = "info"      -> WriteInt32LE(-1) \o <<84>> \o SourceEngineQuery \o <<0>>
        [] type = "player"    -> WriteInt32LE(-1) \o <<85>> \o WriteInt32LE(c)
        [] type = "rules"     -> WriteInt32LE(-1) \o <<86>> \o WriteInt32LE(c)
        [] type = "challenge" -> WriteInt32LE(-1) \o <<87>>
        [] type = "ping"      -> WriteInt32LE(-1) \o <<105>>
        [] OTHER              -> << -1 >>

-----------------------------------------------------------------------------
(* The response parsers.  Each takes the packet with its cursor after the  *)
(* type byte and gives [p |-> the packet after parsing, v |-> the result]; *)
(* p.ok = FALSE means a read threw and the parser did not return.  A       *)
(* parser's state is the packet p, the object v it is filling, and the     *)
(* flag byte once it was read.                                             *)

Parse(p, v) == [p |-> p, v |-> v, flag |-> 0]

\* `data.<field> = <the value read>`, the cursor moving on
put(st, field, r) == [st EXCEPT !.p = r.p, !.v[field] = r.v]

putSome(st, field, r) == [st EXCEPT !.p = r.p, !.v[field] = Some(r.v)]

getInt(st, field, bytes) == put(st, field, readInt(st.p, bytes))

getSomeInt(st, field, bytes) == putSome(st, field, readInt(st.p, bytes))

getChar(st, field) == put(st, field, readChar(st.p))

getFloat(st, field) == put(st, field, readFloat(st.p))

getString(st, field) == put(st, field, readString(st.p))

\* a read whose value is dropped
skipInt(st, bytes) == [st EXCEPT !.p = readInt(st.p, bytes).p]

\* `const flag = packet.readInt(1)`
withFlag(st, r) == [st EXCEPT !.p = r.p, !.flag = r.v]

getFlag(st) == withFlag(st, readInt(st.p, 1))

\* flag & mask, mask a power of two
FlagBit(st, mask) == (st.flag \div mask) % 2 = 1

\* the fields The Ship adds: `if (id == 2400)`
shipInt(st, field) ==
  IF st.v.id = Some(2400) THEN getSomeInt(st, field, 1) ELSE st

\* the optional fields of the extra data flag
flagInt(st, mask, field, bytes) ==
  IF FlagBit(st, mask) THEN getSomeInt(st, field, bytes) ELSE st

flagInt8(st, mask, field) ==
  IF FlagBit(st, mask) THEN putSome(st, field, readInt8(st.p)) ELSE st

flagString(st, mask, field) ==
  IF FlagBit(st, mask) THEN putSome(st, field, readString(st.p)) ELSE st

spectatorName(st, port, name) ==
  [st EXCEPT !.p = name.p,
             !.v.spectator = Some([port |-> port.v, name |-> name.v])]

\* a variant of spectatorPort that does not read the spectator's name
spectatorPortOnly(st, port) ==
  [st EXCEPT !.p = port.p,
             !.v.spectator = Some([port |-> port.v, name |-> << >>])]

spectatorPort(st, port) == spectatorName(st, port, readString(port.p))

flagSpectator(st, mask) ==
  IF FlagBit(st, mask) THEN spectatorPort(st, readInt(st.p, 2)) ELSE st

\* the object _parseInfo fills; a field the response does not carry stays
\* undefined
InfoData ==
  [kind |-> "source",
   protocol |-> 0, name |-> << >>, map |-> << >>, folder |-> << >>,
   game |-> << >>, id |-> Undef, players |-> 0, maxplayers |-> 0, bots |-> 0,
   type |-> 0, environment |-> 0, visibility |-> 0, vac |-> 0,
   mode |-> Undef, witnesses |-> Undef, duration |-> Undef,
   version |-> << >>, port |-> Undef, steamid |-> Undef, spectator |-> Undef,
   keywords |-> Undef, gameid |-> Undef]

\* _parseInfo: a Source info response (0x49)
parseInfo(p0) ==
  LET protocol    == getInt(Parse(p0, InfoData), "protocol", 1)
      name        == getString(protocol, "name")
      map         == getString(name, "map")
      folder      == getString(map, "folder")
      game        == getString(folder, "game")
      id          == getSomeInt(game, "id", 2)
      players     == getInt(id, "players", 1)
      maxplayers  == getInt(players, "maxplayers", 1)
      bots        == getInt(maxplayers, "bots", 1)
      type        == getChar(bots, "type")
      environment == getChar(type, "environment")
      visibility  == getInt(environment, "visibility", 1)
      vac         == getInt(visibility, "vac", 1)
      mode        == shipInt(vac, "mode")
      witnesses   == shipInt(mode, "witnesses")
      duration    == shipInt(witnesses, "duration")
      version     == getString(duration, "version")
      flag        == getFlag(version)
      port        == flagInt(flag, 128, "port", 2)
      steamid     == flagInt8(port, 16, "steamid")
      spectator   == flagSpectator(steamid, 64)
      keywords    == flagString(spectator, 32, "keywords")
      gameid      == flagInt8(keywords, 1, "gameid")
  IN  gameid

\* the object _parseInfoObsolete fills; it has no id field.  mod is the
\* byte read, or the object that replaces it when the byte is 1
ObsoleteData ==
  [kind |-> "obsolete",
   address |-> << >>, name |-> << >>, map |-> << >>, folder |-> << >>,
   game |-> << >>, id |-> Undef, players |-> 0, maxplayers |-> 0,
   protocol |-> 0, type |-> 0, environment |-> 0, visibility |-> 0,
   mod |-> 0, modObject |-> Undef, vac |-> 0, bots |-> 0]

ModData ==
  [link |-> << >>, downloadlink |-> << >>, version |-> 0, size |-> 0,
   type |-> 0, dll |-> 0]

\* the object read `if (data.mod == 1)`
parseMod(p0) ==
  LET link         == getString(Parse(p0, ModData), "link")
      downloadlink == getString(link, "downloadlink")
      nullByte     == skipInt(downloadlink, 1)
      version      == getInt(nullByte, "version", 4)
      size         == getInt(version, "size", 4)
      type         == getInt(size, "type", 1)
      dll          == getInt(type, "dll", 1)
  IN  dll

getMod(st) ==
  IF st.v.mod = 1 THEN putSome(st, "modObject", parseMod(st.p)) ELSE st

\* _parseInfoObsolete: a GoldSource info response (0x6D)
parseInfoObsolete(p0) ==
  LET address     == getString(Parse(p0, ObsoleteData), "address")
      name        == getString(address, "name")
      map         == getString(name, "map")
      folder      == getString(map, "folder")
      game        == getString(folder, "game")
      players     == getInt(game, "players", 1)
      maxplayers  == getInt(players, "maxplayers", 1)
      protocol    == getInt(maxplayers, "protocol", 1)
      type        == getChar(protocol, "type")
      environment == getChar(type, "environment")
      visibility  == getInt(environment, "visibility", 1)
      mod         == getInt(visibility, "mod", 1)
      modObject   == getMod(mod)
      vac         == getInt(modObject, "vac", 1)
      bots        == getInt(vac, "bots", 1)
  IN  bots

PlayerData ==
  [index |-> 0, name |-> << >>, score |-> 0, duration |-> 0,
   deaths |-> Undef, money |-> Undef]

\* the two more fields of a player of The Ship
shipPlayerInt(st, ship, field) ==
  IF ship THEN getSomeInt(st, field, 4) ELSE st

\* one iteration of _parsePlayer's loops: a record of four fields, or of six
\* for The Ship (appId 2400)
readPlayer(p0, ship) ==
  LET index    == getInt(Parse(p0, PlayerData), "index", 1)
      name     == getString(index, "name")
      score    == getInt(name, "score", 4)
      duration == getFloat(score, "duration")
      deaths   == shipPlayerInt(duration, ship, "deaths")
      money    == shipPlayerInt(deaths, ship, "money")
  IN  money

RECURSIVE playerLoop(_, _, _, _)
\* players.push(...); numplayers -= 1
playerPush(r, numplayers, ship, players) ==
  playerLoop(r.p, numplayers - 1, ship,
             IF r.p.ok THEN Append(players, r.v) ELSE players)

playerLoop(p, numplayers, ship, players) ==
  IF ~p.ok \/ ~(numplayers > 0 /\ p.index < Len(p.data))
  THEN [p |-> p, v |-> [players |-> players]]
  ELSE playerPush(readPlayer(p, ship), numplayers, ship, players)

playerCount(numplayers, ship) ==
  playerLoop(numplayers.p, numplayers.v, ship, << >>)

\* a variant of parsePlayer that reads records of four fields for every
\* application
parsePlayerFour(p0, appId) == playerCount(readInt(p0, 1), FALSE)

\* _parsePlayer(packet, appId); appId is a slot (undefined for an obsolete
\* info record)
parsePlayer(p0, appId) == playerCount(readInt(p0, 1), appId = Some(2400))

RuleData == [name |-> << >>, value |-> << >>]

readRule(p0) ==
  LET name  == getString(Parse(p0, RuleData), "name")
      value == getString(name, "value")
  IN  value

RECURSIVE rulesLoop(_, _, _)
\* rules.push({ name, value }); numrules -= 1
rulesPush(r, numrules, rules) ==
  rulesLoop(r.p, numrules - 1, Append(rules, r.v))

rulesLoop(p, numrules, rules) ==
  IF ~p.ok \/ ~(numrules > 0 /\ p.index < Len(p.data))
  THEN [p |-> p, v |-> [rules |-> rules]]
  ELSE rulesPush(readRule(p), numrules, rules)

rulesCount(numrules) == rulesLoop(numrules.p, numrules.v, << >>)

\* a variant of parseRules that reads the count as an unsigned integer
parseRulesUnsigned(p0) ==
  rulesCount([p |-> readInt(p0, 2).p, v |-> readInt(p0, 2).v % 65536])

\* _parseRules
parseRules(p0) == rulesCount(readInt(p0, 2))

\* _parseChallenge
parseChallenge(p0) == readInt(p0, 4)

-----------------------------------------------------------------------------
(* Connections *)

\* a connection as the caller passes it to the constructor
Connection(host, port) ==
  [host |-> host, port |-> port,
   info |-> Undef, player |-> Undef, rules |-> Undef, ping |-> Undef,
   challengePlayer |-> Undef, challengeRules |-> Undef,
   timestamp |-> Undef, packets |-> Undef, compression |-> Undef]

\* what a callback did, in order: emit an event, store a slot, send a
\* datagram, clear the timer, close the socket
Emit(name, i, data) == [op |-> "emit", name |-> name, conn |-> i, data |-> Some(data)]

Store(slot, i) == [op |-> "store", name |-> slot, conn |-> i, data |-> Undef]

Send(type, i, host, port, data) ==
  [op |-> "send", name |-> type, conn |-> i,
   data |-> Some([host |-> host, port |-> port, data |-> data])]

ClearTimeout == [op |-> "clearTimeout", name |-> "", conn |-> 0, data |-> Undef]

Close == [op |-> "close", name |-> "", conn |-> 0, data |-> Undef]

\* a variant of findIndex that gives the last matching connection
findLastIndex(conns, address, port) ==
  IF \E j \in 1..Len(conns) : conns[j].host = address /\ conns[j].port = port
  THEN CHOOSE j \in 1..Len(conns) :
         /\ conns[j].host = address /\ conns[j].port = port
         /\ \A k \in (j + 1)..Len(conns) :
              ~(conns[k].host = address /\ conns[k].port = port)
  ELSE 0

\* connections.findIndex(c => c.host == address && c.port == port), 1-based;
\* 0 when there is none
RECURSIVE findIndexFrom(_, _, _, _)
findIndexFrom(conns, address, port, i) ==
  IF i > Len(conns) THEN 0
  ELSE IF conns[i].host = address /\ conns[i].port = port THEN i
  ELSE findIndexFrom(conns, address, port, i + 1)

findIndex(conns, address, port) == findIndexFrom(conns, address, port, 1)

-----------------------------------------------------------------------------
(* The multi-packet reassembler *)

\* seek-bzip's decode(data, size), of which the model keeps the framing
\* only: a stream is the magic "BZh" followed by the payload, and decoding
\* a buffer that does not start with the magic throws
BzipMagic == << 66, 90, 104 >>

bzipDecode(data, size) ==
  IF Len(data) >= 3 /\ SubSeq(data, 1, 3) = BzipMagic
  THEN [ok |-> TRUE, v |-> SubSeq(data, 4, Len(data))]
  ELSE [ok |-> FALSE, v |-> << >>]

\* arr[k] = v on a JavaScript array (0-based k): the array grows with
\* holes when k is past its end
ArraySet(arr, k, v) ==
  [j \in 1..(IF k + 1 > Len(arr) THEN k + 1 ELSE Len(arr)) |->
     IF j = k + 1 THEN Some(v)
     ELSE IF j <= Len(arr) THEN arr[j] ELSE Undef]

\* new Array(n): n holes
NewArray(n) == [j \in 1..n |-> Undef]

\* arr.filter(x => x).length: Buffers are truthy, holes are skipped
NumDefined(arr) == Cardinality({j \in 1..Len(arr) : arr[j] # Undef})

\* Buffer.concat(arr); it throws on a hole
RECURSIVE concatFrom(_, _)
concatFrom(arr, j) ==
  IF j > Len(arr) THEN << >> ELSE Get(arr[j]) \o concatFrom(arr, j + 1)

BufferConcat(arr) ==
  IF \E j \in 1..Len(arr) : arr[j] = Undef
  THEN [ok |-> FALSE, v |-> << >>]
  ELSE [ok |-> TRUE, v |-> concatFrom(arr, 1)]

\* _parseMultiPacket(packet, connectionIndex), packet with its cursor after
\* the -2 header.  The call's state is the packet p, the connection conn as
\* the call has changed it so far, and the header fields once read; p.ok =
\* FALSE means the call threw.
Multi(p, connection) ==
  [p |-> p, conn |-> connection, id |-> 0, packetTotal |-> 0, packetId |-> 0]

withId(h, r) == [h EXCEPT !.p = r.p, !.id = r.v]

\* const id = packet.readInt(4)
multiId(h) == withId(h, readInt(h.p, 4))

\* connection.info.id < 200 (false when the info record has no id)
isGoldSource(connection) ==
  Get(connection.info).id # Undef /\ Get(Get(connection.info).id) < 200

\* the GoldSource header: one byte, upper 4 bits the number of the packet,
\* lower 4 bits the total
withPacketNumber(h, r) ==
  [h EXCEPT !.p = r.p, !.packetId = (r.v \div 16) % 16,
            !.packetTotal = r.v % 16]

goldSourceHeader(h) == withPacketNumber(h, readInt(h.p, 1))

\* (id & 0xFF) >> 7: the top bit of the lowest byte of id
Compressed(id) == ((id % 256) \div 128) % 2 = 1

withPacketTotal(h, r) == [h EXCEPT !.p = r.p, !.packetTotal = r.v]

withPacketId(h, r) == [h EXCEPT !.p = r.p, !.packetId = r.v]

\* the appIds whose split packets carry no packet size (with protocol 7)
NoSizeAppIds == {215, 17550, 17700, 240}

hasPacketSize(connection) ==
  ~(Get(connection.info).protocol = 7
    /\ Get(connection.info).id # Undef
    /\ Get(Get(connection.info).id) \in NoSizeAppIds)

sourcePacketSize(h) == IF hasPacketSize(h.conn) THEN skipInt(h, 2) ELSE h

\* this.connections[connectionIndex]._compression = { size, checksum }
withCompression(h, size, checksum) ==
  IF checksum.p.ok
  THEN [h EXCEPT !.p = checksum.p,
                 !.conn.compression =
                    Some([size |-> size.v, checksum |-> checksum.v])]
  ELSE [h EXCEPT !.p = checksum.p]

compressionSize(h, size) == withCompression(h, size, readInt(size.p, 4))

sourceCompression(h) ==
  IF h.packetId = 0 /\ Compressed(h.id)
  THEN compressionSize(h, readInt(h.p, 4)) ELSE h

\* the Source header: total, number, size, and in packet 0 of a compressed
\* response the decompressed size and the checksum
sourceHeader(h) ==
  LET packetTotal == withPacketTotal(h, readInt(h.p, 1))
      packetId    == withPacketId(packetTotal, readInt(packetTotal.p, 1))
      packetSize  == sourcePacketSize(packetId)
  IN  sourceCompression(packetSize)

\* reading connection.info.id throws when the connection has no info
multiHeader(h) ==
  IF ~h.p.ok THEN h
  ELSE IF h.conn.info = Undef THEN [h EXCEPT !.p = Thrown(h.p)]
  ELSE IF isGoldSource(h.conn) THEN goldSourceHeader(h)
  ELSE sourceHeader(h)

\* if (packetId == 0) packet.readInt(4)
skipSimpleHeader(h) == IF h.p.ok /\ h.packetId = 0 THEN skipInt(h, 4) ELSE h

\* _packets is allocated when the connection has none, and the rest of the
\* datagram is stored at packetId
storePacket(h) ==
  IF ~h.p.ok THEN h
  ELSE [h EXCEPT !.conn.packets =
          Some(ArraySet(IF @ = Undef THEN NewArray(h.packetTotal) ELSE Get(@),
                        h.packetId,
                        Slice(h.p.data, h.p.index, Len(h.p.data))))]

\* what the call gives: the connection as the call leaves it, and
\*   threw  = TRUE   when it threw,
\*   result = << >>  when it returned false,
\*   result = <<d>>  when it returned the combined buffer d.
MultiResult(connection, threw, result) ==
  [conn |-> connection, threw |-> threw, result |-> result]

decodedPackets(connection, decoded) ==
  IF decoded.ok THEN MultiResult(connection, FALSE, Some(decoded.v))
  ELSE MultiResult(connection, TRUE, Undef)

mergedPackets(connection, data) ==
  IF ~data.ok THEN MultiResult(connection, TRUE, Undef)
  ELSE IF connection.compression = Undef
  THEN MultiResult(connection, FALSE, Some(data.v))
  ELSE decodedPackets(connection,
                      bzipDecode(data.v, Get(connection.compression).size))

allPackets(h) ==
  IF ~h.p.ok THEN MultiResult(h.conn, TRUE, Undef)
  ELSE IF NumDefined(Get(h.conn.packets)) # h.packetTotal
  THEN MultiResult(h.conn, FALSE, Undef)
  ELSE mergedPackets(h.conn, BufferConcat(Get(h.conn.packets)))

parseMultiPacket(p0, connection) ==
  LET id     == multiId(Multi(p0, connection))
      header == multiHeader(id)
      simple == skipSimpleHeader(header)
      stored == storePacket(simple)
  IN  allPackets(stored)

-----------------------------------------------------------------------------
(* The request senders.  Each gives the effects of its synchronous part:   *)
(* socket.send is called before the first await.                           *)

\* _requestInfo
requestInfo(c, i) == << Send("info", i, c.host, c.port, RequestPacket("info", Undef)) >>

\* _requestChallenge: the player or rules request with the default
\* challenge -1, chosen by the truthiness of _challengePlayer
requestChallenge(c, i) ==
  LET type == IF TruthyInt(c.challengePlayer) THEN "rules" ELSE "player"
  IN  << Send(type, i, c.host, c.port, RequestPacket(type, Undef)) >>

\* _requestPlayer
requestPlayer(c, i) ==
  (IF ~TruthyInt(c.challengePlayer)
   THEN << Emit("error", i, "missing a player challenge") >> ELSE << >>)
  \o << Send("player", i, c.host, c.port, RequestPacket("player", c.challengePlayer)) >>

\* _requestRules sending the player challenge instead of the rules challenge
requestRulesPlayerToken(c, i) ==
  (IF ~TruthyInt(c.challengeRules)
   THEN << Emit("error", i, "missing a rules challenge") >> ELSE << >>)
  \o << Send("rules", i, c.host, c.port, RequestPacket("rules", c.challengePlayer)) >>

\* _requestRules
requestRules(c, i) ==
  (IF ~TruthyInt(c.challengeRules)
   THEN << Emit("error", i, "missing a rules challenge") >> ELSE << >>)
  \o << Send("rules", i, c.host, c.port, RequestPacket("rules", c.challengeRules)) >>

\* _requestPing: the timestamp is stored, then the request is sent
requestPing(c, i) ==
  << Store("_timestamp", i),
     Send("ping", i, c.host, c.port, RequestPacket("ping", Undef)) >>

\* the ping value (endTime - startTime) / 10e6, kept as its numerator (the
\* division changes neither its sign nor whether it is zero); NaN when no
\* timestamp was stored
pingValue(startTime, endTime) ==
  IF startTime = Undef THEN NaN ELSE Num(endTime - Get(startTime))

\* the test of _checkIfDone
everyFulfilled(conns) ==
  \A k \in 1..Len(conns) :
     /\ TruthyObj(conns[k].info)
     /\ TruthyObj(conns[k].player)
     /\ TruthyObj(conns[k].rules)
     /\ TruthyNum(conns[k].ping)

\* _checkIfDone leaving the timer armed
checkIfDoneKeepTimer(conns) ==
  IF everyFulfilled(conns)
  THEN << Emit("done", 0, Some(conns)), Close >>
  ELSE << >>

\* _checkIfDone: emit 'done', then clear the timer, then close the socket
checkIfDone(conns) ==
  IF everyFulfilled(conns)
  THEN << Emit("done", 0, Some(conns)), ClearTimeout, Close >>
  ELSE << >>

\* a variant of socketTimeout that emits 'done' with null
socketTimeoutNull(connsSlot) == << Close, Emit("done", 0, Undef) >>

\* _socketTimeout: close the socket, then emit 'done' with this.connections
socketTimeout(connsSlot) == << Close, Emit("done", 0, connsSlot) >>

-----------------------------------------------------------------------------
(* _handleSocketMessage(msg, {address, port}); now is the reading of        *)
(* process.hrtime()[1] the call takes when it needs one.  Gives             *)
(*   conns   the connections as the call leaves them,                       *)
(*   effects what it did, in order,                                         *)
(*   ret     "true" | "false" | "throw",                                    *)
(*   yielded the combined buffer of a multi-packet response, if the call    *)
(*           obtained one.                                                  *)

Result(conns, effects, ret, yielded) ==
  [conns |-> conns, effects |-> effects, ret |-> ret, yielded |-> yielded]

\* an exception leaves the handler before it did anything
Throws(conns, yielded) == Result(conns, << >>, "throw", yielded)

\* a variant of infoResponse that stores the info in every connection
infoResponseShared(conns, i, data, yielded) ==
  IF ~data.p.ok THEN Throws(conns, yielded)
  ELSE Result([k \in 1..Len(conns) |-> [conns[k] EXCEPT !.info = Some(data.v)]],
              << Emit("info", i, data.v), Store("info", i) >>
                \o requestChallenge([conns[i] EXCEPT !.info = Some(data.v)], i),
              "true", yielded)

\* case 0x49 and case 0x6D, data the parsed info
infoResponse(conns, i, data, yielded) ==
  IF ~data.p.ok THEN Throws(conns, yielded)
  ELSE Result([conns EXCEPT ![i].info = Some(data.v)],
              << Emit("info", i, data.v), Store("info", i) >>
                \o requestChallenge([conns[i] EXCEPT !.info = Some(data.v)], i),
              "true", yielded)

\* a variant of playerResponse that stores the players before it emits
\* 'player'
playerResponseStoreFirst(conns, i, data, yielded) ==
  IF ~data.p.ok THEN Throws(conns, yielded)
  ELSE Result([conns EXCEPT ![i].player = Some(data.v)],
              << Store("player", i), Emit("player", i, data.v) >>
                \o requestChallenge([conns[i] EXCEPT !.player = Some(data.v)], i),
              "true", yielded)

\* case 0x44, data the parsed players
playerResponse(conns, i, data, yielded) ==
  IF ~data.p.ok THEN Throws(conns, yielded)
  ELSE Result([conns EXCEPT ![i].player = Some(data.v)],
              << Emit("player", i, data.v), Store("player", i) >>
                \o requestChallenge([conns[i] EXCEPT !.player = Some(data.v)], i),
              "true", yielded)

\* case 0x45, data the parsed rules
rulesResponse(conns, i, data, now, yielded) ==
  IF ~data.p.ok THEN Throws(conns, yielded)
  ELSE Result([conns EXCEPT ![i].rules = Some(data.v),
                            ![i].timestamp = Some(now)],
              << Emit("rules", i, data.v), Store("rules", i) >>
                \o requestPing([conns[i] EXCEPT !.rules = Some(data.v)], i),
              "true", yielded)

\* case 0x6A, data the ping value
pingResponse(conns, i, data, yielded) ==
  Result([conns EXCEPT ![i].ping = Some(data)],
         << Emit("ping", i, data), Store("ping", i) >>
           \o checkIfDone([conns EXCEPT ![i].ping = Some(data)]),
         "true", yielded)

\* case 0x41, data the parsed challenge
challengeResponse(conns, i, data, yielded) ==
  IF ~data.p.ok THEN Throws(conns, yielded)
  ELSE IF ~TruthyInt(conns[i].challengePlayer)
  THEN Result([conns EXCEPT ![i].challengePlayer = Some(data.v)],
              << Emit("challenge", i, data.v), Store("_challengePlayer", i) >>
                \o requestPlayer([conns[i] EXCEPT !.challengePlayer = Some(data.v)], i),
              "true", yielded)
  ELSE Result([conns EXCEPT ![i].challengeRules = Some(data.v)],
              << Emit("challenge", i, data.v), Store("_challengeRules", i) >>
                \o requestRules([conns[i] EXCEPT !.challengeRules = Some(data.v)], i),
              "true", yielded)

\* the switch on the type byte, for connection i; packet has its cursor
\* after the type byte
typeSwitch(conns, i, headerType, packet, now, yielded) ==
  CASE headerType = 73 ->    \* 0x49
         infoResponse(conns, i, parseInfo(packet), yielded)
    [] headerType = 109 ->   \* 0x6D
         infoResponse(conns, i, parseInfoObsolete(packet), yielded)
    [] headerType = 68 ->    \* 0x44
         IF conns[i].info = Undef THEN Throws(conns, yielded)
         ELSE playerResponse(conns, i,
                             parsePlayer(packet, Get(conns[i].info).id), yielded)
    [] headerType = 69 ->    \* 0x45
         rulesResponse(conns, i, parseRules(packet), now, yielded)
    [] headerType = 106 ->   \* 0x6A
         pingResponse(conns, i, pingValue(conns[i].timestamp, now), yielded)
    [] headerType = 65 ->    \* 0x41
         challengeResponse(conns, i, parseChallenge(packet), yielded)
    [] OTHER ->
         Result(conns, << Emit("error", i, "Expected a valid type header") >>,
                "false", yielded)

\* const headerType = packet.readInt(1), and the switch
readType(conns, i, headerType, now, yielded) ==
  IF ~headerType.p.ok THEN Throws(conns, yielded)
  ELSE typeSwitch(conns, i, headerType.v, headerType.p, now, yielded)

handleType(conns, i, packet, now, yielded) ==
  readType(conns, i, readInt(packet, 1), now, yielded)

\* case -2, multi the outcome of _parseMultiPacket
multiResponse(conns, i, multi, now) ==
  IF multi.threw
  THEN Throws([conns EXCEPT ![i] = multi.conn], Undef)
  ELSE IF multi.result = Undef
  THEN Result([conns EXCEPT ![i] = multi.conn], << >>, "true", Undef)
  ELSE handleType([conns EXCEPT ![i] = multi.conn], i,
                  ResponsePacket(Get(multi.result)), now, multi.result)

\* a variant of headerSwitch with no default case: every header other than
\* -2 is taken for the simple one
headerSwitchNoDefault(conns, i, headerFormat, now) ==
  IF ~headerFormat.p.ok THEN Throws(conns, Undef)
  ELSE IF headerFormat.v = -2
  THEN multiResponse(conns, i, parseMultiPacket(headerFormat.p, conns[i]), now)
  ELSE handleType(conns, i, headerFormat.p, now, Undef)

\* the switch on the header, for connection i
headerSwitch(conns, i, headerFormat, now) ==
  IF ~headerFormat.p.ok THEN Throws(conns, Undef)
  ELSE IF headerFormat.v = -1
  THEN handleType(conns, i, headerFormat.p, now, Undef)
  ELSE IF headerFormat.v = -2
  THEN multiResponse(conns, i, parseMultiPacket(headerFormat.p, conns[i]), now)
  ELSE Result(conns, << Emit("error", i, "Expected a valid response header") >>,
              "false", Undef)

\* a variant of matched that drops a datagram of an unknown source silently
matchedSilent(conns, i, msg, now) ==
  IF i = 0
  THEN Result(conns, << >>, "false", Undef)
  ELSE headerSwitch(conns, i, readInt(ResponsePacket(msg), 4), now)

\* the handler once the connection is looked up (i = 0: there is none)
matched(conns, i, msg, now) ==
  IF i = 0
  THEN Result(conns, << Emit("error", 0, "Could not find a matching connection") >>,
              "false", Undef)
  ELSE headerSwitch(conns, i, readInt(ResponsePacket(msg), 4), now)

\* this.connections as the slot it is
lift(r) == [r EXCEPT !.conns = Some(r.conns)]

\* `msg instanceof Buffer`: a Buffer is a sequence of bytes; an argument that
\* is no Buffer (a missing one, a string) is a sequence holding a marker
\* that is no byte
IsBuffer(msg) == \A k \in 1..Len(msg) : msg[k] \in 0..255

\* a variant of handleSocketMessage without the test of its message
handleSocketMessageNoGuard(conns, msg, address, port, now) ==
  IF conns = Undef
  THEN Throws(conns, Undef)
  ELSE lift(matched(Get(conns), findIndex(Get(conns), address, port), msg, now))

handleSocketMessage(conns, msg, address, port, now) ==
  IF ~IsBuffer(msg) \/ Len(msg) = 0
  THEN Result(conns, << Emit("error", 0, "Expected a valid response.") >>,
              "false", Undef)
  ELSE IF conns = Undef
  THEN Throws(conns, Undef)
  ELSE lift(matched(Get(conns), findIndex(Get(conns), address, port), msg, now))

-----------------------------------------------------------------------------
(* The environment: the caller's connection lists, DNS, the datagrams a    *)
(* peer may send, the clock.                                               *)

Port == 27015

\* dns.resolve(hostname, 'A'): the first address of the records, or << >>
\* when the lookup fails
Dns(hostname) ==
  CASE hostname = "h1" -> Some("a1")
    [] hostname = "h1b" -> Some("a1")
    [] hostname = "h2" -> Some("a2")
    [] OTHER -> Undef

\* the values of the constructor's `connections` argument: missing, empty,
\* one or two servers, a list whose first hostname does not resolve
ConnectionLists ==
  { Undef,
    Some(<< >>),
    Some(<< Connection("h1", Port) >>),
    Some(<< Connection("h1", Port), Connection("h2", Port) >>),
    Some(<< Connection("nohost", Port), Connection("h1", Port) >>) }

\* readings of process.hrtime()[1], the nanosecond within the second
ClockReadings == {100, 200}

\* what the host does with an exception that escapes a callback
UncaughtOutcomes == {"running", "exited"}

FFFF == << 255, 255, 255, 255 >>

\* a Source info response: protocol, name "n", map "m", folder "f", game
\* "g", appId, 1 player of 8, no bots, 'd', 'l', public, VAC, version "1",
\* no extra data
InfoDatagram(protocol, appId) ==
  FFFF \o << 73, protocol, 110, 0, 109, 0, 102, 0, 103, 0,
             appId % 256, appId \div 256, 1, 8, 0, 100, 108, 0, 1 >>
       \o (IF appId = 2400 THEN << 1, 2, 30 >> ELSE << >>)
       \o << 49, 0, 0 >>

ChallengeDatagram(token) == FFFF \o << 65 >> \o WriteInt32LE(token)

\* a player response: one player, index 0, name "p", score 3, duration 0.0
PlayerPayload == << 68, 1, 0, 112, 0, 3, 0, 0, 0, 0, 0, 0, 0 >>

\* a rules response: one rule "r" = "v"
RulesPayload == << 69, 1, 0, 114, 0, 118, 0 >>

PlayerDatagram == FFFF \o PlayerPayload

RulesDatagram == FFFF \o RulesPayload

PingDatagram == FFFF \o << 106 >>

\* an info response cut after its type byte
TruncatedDatagram == FFFF \o << 73 >>

\* a response of no known type
UnknownTypeDatagram == FFFF \o << 0 >>

\* challenge tokens a server issues in the model
Tokens == {0, 5}

\* a datagram and the address it comes from
Arrival(msg, address) == [msg |-> msg, address |-> address]

\* the arrivals of Spec: anything from the first server, the four results
\* from the second, a ping echo from a stranger
SpecArrivals ==
  { Arrival(m, "a1") :
      m \in { InfoDatagram(17, 730), PlayerDatagram, RulesDatagram, PingDatagram,
              TruncatedDatagram, UnknownTypeDatagram }
            \cup { ChallengeDatagram(t) : t \in Tokens } }
  \cup { Arrival(m, "a2") :
      m \in { InfoDatagram(17, 730), PlayerDatagram, RulesDatagram, PingDatagram } }
  \cup { Arrival(PingDatagram, "a9") }

-----------------------------------------------------------------------------
(* The history of a run *)

\* one callback: which (cb), the connection it was about (conn, 0 for
\* none), the datagram and its source for a 'message' callback, what it
\* did in order (effects), how it ended (ret) and the combined multi-packet
\* buffer it obtained, if any
Call(cb, i, msg, address, effects, ret, yielded) ==
  [cb |-> cb, conn |-> i, msg |-> msg, address |-> address,
   effects |-> effects, ret |-> ret, yielded |-> yielded]

NoCall == Call("none", 0, << >>, "", << >>, "", Undef)

Select(es, op) == SelectSeq(es, LAMBDA e : e.op = op)

Has(es, op) == \E k \in 1..Len(es) : es[k].op = op

\* a send on a socket that is not running: socket.send throws inside
\* _sendPacket's promise, and the request's catch block emits 'error'
FailSends(es, i) ==
  [k \in 1..Len(es) |-> IF es[k].op = "send" THEN [es[k] EXCEPT !.op = "sendfail"]
                        ELSE es[k]]
  \o (IF Has(es, "send") THEN << Emit("error", i, "Not running") >> ELSE << >>)

\* the history after a callback
Record(call) ==
  /\ events' = events \o Select(call.effects, "emit")
  /\ sent' = sent \o Select(call.effects, "send")
  /\ closeCalls' = closeCalls + Len(Select(call.effects, "close"))
  /\ queries' = IF call.cb = "query" THEN queries + 1 ELSE queries
  /\ nmsgs' = IF call.cb = "message" THEN nmsgs + 1 ELSE nmsgs
  /\ fragments' = IF call.cb = "message" /\ Len(call.msg) >= 4
                     /\ SubSeq(call.msg, 1, 4) = WriteInt32LE(-2)
                  THEN fragments \cup {[msg |-> call.msg, address |-> call.address]}
                  ELSE fragments
  /\ yields' = IF call.yielded # Undef
               THEN Append(yields, [conn |-> call.conn, msg |-> call.msg,
                                    address |-> call.address,
                                    data |-> Get(call.yielded)])
               ELSE yields
  /\ last' = call
  /\ UNCHANGED <<arg, res>>

-----------------------------------------------------------------------------
(* The state machine *)

Init ==
  /\ proc = "running"
  /\ socket = "null"
  /\ timeout = "null"
  /\ connections \in ConnectionLists
  /\ qpc = "idle"
  /\ qi = 0
  /\ inflight = {}
  /\ served = 0
  /\ stale = 0
  /\ events = << >>
  /\ sent = << >>
  /\ closeCalls = 0
  /\ queries = 0
  /\ nmsgs = 0
  /\ fragments = {}
  /\ yields = << >>
  /\ last = NoCall
  /\ arg = Undef
  /\ res = Undef

\* a variant of Connect that binds a socket without storing its reference
ConnectNoReference ==
  /\ proc = "running"
  /\ socket = "null"
  /\ last = NoCall
  /\ Record(Call("connect", 0, << >>, "", << >>, "", Undef))
  /\ UNCHANGED <<proc, socket, timeout, connections, qpc, qi, inflight, served, stale>>

\* connect(): _connect creates the socket, registers the handlers and
\* binds; the socket then delivers datagrams
Connect ==
  /\ proc = "running"
  /\ socket = "null"
  /\ socket' = "open"
  /\ Record(Call("connect", 0, << >>, "", << >>, "", Undef))
  /\ UNCHANGED <<proc, timeout, connections, qpc, qi, inflight, served, stale>>

\* query() up to its first await (or its return): with no connections it
\* closes the socket and emits 'done' with null; otherwise it arms the timer
\* and starts resolving the first hostname
Query ==
  /\ proc = "running"
  /\ socket = "open"
  /\ qpc = "idle"
  /\ IF connections = Undef
     THEN /\ socket' = "closed"
          /\ Record(Call("query", 0, << >>, "",
                         << Close, Emit("done", 0, Undef) >>, "", Undef))
          /\ qpc' = "returned"
          /\ UNCHANGED <<timeout, qi>>
     ELSE /\ timeout' = "armed"
          /\ IF Len(Get(connections)) = 0
             THEN qpc' = "returned" /\ qi' = qi
             ELSE qpc' = "resolving" /\ qi' = 1
          /\ Record(Call("query", 0, << >>, "", << >>, "", Undef))
          /\ UNCHANGED socket
  /\ UNCHANGED <<proc, connections, inflight, served, stale>>

\* query() resumes after `await this._resolveHost(...)` resolved: the
\* connection's host becomes the address, the info request is sent, and the
\* loop goes on to the next connection or query() returns
ResolveDone ==
  /\ proc = "running"
  /\ qpc = "resolving"
  /\ LET cs == Get(connections)
         a  == Dns(cs[qi].host)
         c  == [cs[qi] EXCEPT !.host = Get(a)]
         es == IF socket = "open" THEN requestInfo(c, qi)
               ELSE FailSends(requestInfo(c, qi), qi)
     IN  /\ a # Undef
         /\ connections' = Some([cs EXCEPT ![qi] = c])
         /\ Record(Call("resolved", qi, << >>, "", es, "", Undef))
         /\ IF qi < Len(cs)
            THEN qi' = qi + 1 /\ qpc' = qpc
            ELSE qi' = qi /\ qpc' = "returned"
  /\ UNCHANGED <<proc, socket, timeout, inflight, served, stale>>

\* a variant of ResolveFail with no catch block: the rejection leaves
\* query(), nothing is emitted
ResolveFailRejects ==
  /\ proc = "running"
  /\ qpc = "resolving"
  /\ Dns(Get(connections)[qi].host) = Undef
  /\ Record(Call("resolved", qi, << >>, "", << >>, "throw", Undef))
  /\ qpc' = "rejected"
  /\ proc' \in UncaughtOutcomes
  /\ UNCHANGED <<socket, timeout, connections, qi, inflight, served, stale>>

\* query() resumes after `await this._resolveHost(...)` rejected: the catch
\* block emits 'error' and query() returns, leaving the loop
ResolveFail ==
  /\ proc = "running"
  /\ qpc = "resolving"
  /\ Dns(Get(connections)[qi].host) = Undef
  /\ Record(Call("resolved", qi, << >>, "",
                 << Emit("error", qi, "ENOTFOUND") >>, "", Undef))
  /\ qpc' = "returned"
  /\ UNCHANGED <<proc, socket, timeout, connections, qi, inflight, served, stale>>

\* what a run of _handleSocketMessage with outcome r leaves behind
Delivered(r, msg, address) ==
  /\ connections' = r.conns
  /\ timeout' = IF Has(r.effects, "clearTimeout") /\ timeout = "armed"
                THEN "cleared" ELSE timeout
  /\ socket' = IF Has(r.effects, "close") THEN "closed" ELSE socket
  /\ Record(Call("message",
                 IF connections = Undef THEN 0
                 ELSE findIndex(Get(connections), address, Port),
                 msg, address, r.effects, r.ret, r.yielded))
  /\ IF r.ret = "throw" THEN proc' \in UncaughtOutcomes ELSE proc' = proc

\* the socket's 'message' event: _handleSocketMessage runs on one datagram
\* (the socket is open, so a socket.close() inside it succeeds)
Deliver(msg, address, now) ==
  Delivered(handleSocketMessage(connections, msg, address, Port, now),
            msg, address)

\* a datagram arrives from anywhere while the socket is bound
Receive ==
  /\ proc = "running"
  /\ socket = "open"
  /\ nmsgs < MaxMsgs
  /\ \E a \in SpecArrivals, now \in ClockReadings :
        Deliver(a.msg, a.address, now)
  /\ UNCHANGED <<qpc, qi, inflight, served, stale>>

\* the timer set by query() expires: _socketTimeout.  socket.close() on a
\* socket that is not running throws before 'done' is emitted.
SocketTimeout ==
  /\ proc = "running"
  /\ timeout = "armed"
  /\ timeout' = "fired"
  /\ IF socket = "open"
     THEN /\ socket' = "closed"
          /\ Record(Call("timeout", 0, << >>, "",
                         socketTimeout(connections), "true", Undef))
          /\ proc' = proc
     ELSE /\ socket' = socket
          /\ Record(Call("timeout", 0, << >>, "", << Close >>, "throw", Undef))
          /\ proc' \in UncaughtOutcomes
  /\ UNCHANGED <<connections, qpc, qi, inflight, served, stale>>

Next ==
  \/ Connect
  \/ Query
  \/ ResolveDone
  \/ ResolveFail
  \/ Receive
  \/ SocketTimeout

Spec == Init /\ [][Next]_vars

-----------------------------------------------------------------------------
(* Multi-packet responses: a server that splits its player and rules       *)
(* responses in two datagrams                                              *)

\* a datagram of a split Source response: the -2 header, the response id,
\* the number of datagrams, this datagram's number, its size, and the body,
\* which in datagram 0 starts with the simple header
Fragment(id, total, k, body) ==
  WriteInt32LE(-2) \o WriteInt32LE(id) \o << total, k >>
    \o << Len(body) % 256, Len(body) \div 256 >>
    \o (IF k = 0 THEN FFFF ELSE << >>) \o body

\* a payload cut in two bodies after its first `at` bytes
Bodies(payload, at) ==
  << SubSeq(payload, 1, at), SubSeq(payload, at + 1, Len(payload)) >>

\* the split response with this id: odd ids carry the player payload, even
\* ids the rules payload
SplitBodies(id) ==
  IF id % 2 = 1 THEN Bodies(PlayerPayload, 5) ELSE Bodies(RulesPayload, 3)

SplitPayload(id) == IF id % 2 = 1 THEN PlayerPayload ELSE RulesPayload

SplitDatagram(id, k) == Fragment(id, 2, k, SplitBodies(id)[k + 1])

\* a datagram with the simple header and a type byte; with the split header
\* and its fields
IsSimple(msg) == Len(msg) >= 5 /\ SubSeq(msg, 1, 4) = FFFF

IsFragment(msg) == Len(msg) >= 10 /\ SubSeq(msg, 1, 4) = WriteInt32LE(-2)

\* the fields of a split datagram, as the server wrote them
FragmentId(msg) == I32(msg[5], msg[6], msg[7], msg[8])

FragmentTotal(msg) == msg[9]

FragmentNumber(msg) == msg[10]

\* the arrivals of SpecMP: the info response and the datagrams of two split
\* responses, all from the first server
MPArrivals ==
  { Arrival(InfoDatagram(17, 730), "a1") }
  \cup { Arrival(SplitDatagram(id, k), "a1") : id \in {1, 2}, k \in {0, 1} }

InitMP ==
  /\ Init
  /\ connections = Some(<< Connection("h1", Port) >>)

\* the server sends its split responses one after the other: a datagram of
\* the second response arrives only after the first response was assembled
\* (datagrams of the first may arrive again, duplicated)
InOrder(a) ==
  (IsFragment(a.msg) /\ FragmentId(a.msg) > 1)
    => \E j \in 1..Len(yields) :
          yields[j].address = a.address /\ FragmentId(yields[j].msg) = 1

ReceiveMP ==
  /\ proc = "running"
  /\ socket = "open"
  /\ nmsgs < MaxMsgs
  /\ \E a \in MPArrivals, now \in ClockReadings :
        /\ InOrder(a)
        /\ Deliver(a.msg, a.address, now)
  /\ UNCHANGED <<qpc, qi, inflight, served, stale>>

NextMP ==
  \/ Connect
  \/ Query
  \/ ResolveDone
  \/ ReceiveMP
  \/ SocketTimeout

SpecMP == InitMP /\ [][NextMP]_vars

-----------------------------------------------------------------------------
(* A server that answers every request it receives with one well-formed    *)
(* response of the expected type, before the deadline                      *)

\* the type byte and the challenge of a request on the wire
RequestType(data) == data[5]

RequestChallenge(data) == I32(data[6], data[7], data[8], data[9])

\* the challenge the server issues for a player request, and for a rules
\* request
ServerTokens == [player |-> 5, rules |-> 6]

\* the responses the server may give to its n-th request: each is the set
\* of datagrams of one response
Responses(n, data) ==
  LET t == RequestType(data)
  IN  CASE t = 84 -> { { InfoDatagram(17, 730) } }
        [] t = 85 -> IF RequestChallenge(data) = -1
                     THEN { { ChallengeDatagram(ServerTokens.player) } }
                     ELSE { { PlayerDatagram },
                            { SplitDatagram(2 * n + 1, k) : k \in {0, 1} } }
        [] t = 86 -> IF RequestChallenge(data) = -1
                     THEN { { ChallengeDatagram(ServerTokens.rules) } }
                     ELSE { { RulesDatagram },
                            { SplitDatagram(2 * n, k) : k \in {0, 1} } }
        [] t = 105 -> { { PingDatagram } }
        [] OTHER -> { }

InitWB ==
  /\ Init
  /\ connections \in { Some(<< Connection("h1", Port) >>),
                       Some(<< Connection("h1", Port), Connection("h2", Port) >>) }

\* the server of the next unanswered request answers it
ServerAnswer ==
  /\ served < Len(sent)
  /\ served < MaxServed
  /\ LET n   == served + 1
         req == Get(sent[n].data)
     IN  \E resp \in Responses(n, req.data) :
            inflight' = inflight \cup
                          { [msg |-> m, address |-> req.host, n |-> n] : m \in resp }
  /\ served' = served + 1
  /\ UNCHANGED <<proc, socket, timeout, connections, qpc, qi, stale>>
  /\ UNCHANGED hist

\* one of the datagrams in flight arrives
ReceiveWB ==
  /\ proc = "running"
  /\ socket = "open"
  /\ \E a \in inflight, now \in ClockReadings :
        /\ Deliver(a.msg, a.address, now)
        /\ inflight' = inflight \ {a}
  /\ UNCHANGED <<qpc, qi, served, stale>>

NextWB ==
  \/ Connect
  \/ Query
  \/ ResolveDone
  \/ ServerAnswer
  \/ ReceiveWB

SpecWB == InitWB /\ [][NextWB]_vars

-----------------------------------------------------------------------------
(* Readers of the history *)

EventCount(i, name) ==
  Len(SelectSeq(events, LAMBDA e : e.conn = i /\ e.name = name))

DoneCount == EventCount(0, "done")

\* the requests sent to connection i, oldest first
SentTo(i) == SelectSeq(sent, LAMBDA e : e.conn = i)

\* a request as its type byte and, for a player or rules request, its
\* challenge on the wire
Request(type, challenge) == [type |-> type, challenge |-> challenge]

RequestOf(e) ==
  LET d == Get(e.data).data
  IN  Request(RequestType(d),
              IF RequestType(d) \in {85, 86} THEN RequestChallenge(d) ELSE 0)

RequestsTo(i) == [k \in 1..Len(SentTo(i)) |-> RequestOf(SentTo(i)[k])]

\* the names of the events about connection i, oldest first
EventNames(i) ==
  LET es == SelectSeq(events, LAMBDA e : e.conn = i)
  IN  [k \in 1..Len(es) |-> es[k].name]

IsPrefix(s, t) == Len(s) <= Len(t) /\ \A k \in 1..Len(s) : s[k] = t[k]

\* the last callback was the delivery of a datagram
Delivery == nmsgs' = nmsgs + 1

NumConnections == IF connections = Undef THEN 0 ELSE Len(Get(connections))

-----------------------------------------------------------------------------
(* Failures: socket errors, datagrams that are no response, a missing or   *)
(* empty message, and compressed split responses                           *)

\* what the handler is called with when it is called with no message (-1),
\* and with a string (-2)
NoBuffers == { << -1 >>, << -2 >> }

\* datagrams of at least four bytes whose header is neither -1 nor -2
BadHeaderDatagrams == { << 1, 0, 0, 0 >>, << 253, 255, 255, 255, 73 >> }

\* a datagram of a compressed split Source response: datagram 0 carries the
\* decompressed size and the CRC32 checksum before its body
CompressedFragment(id, total, k, size, checksum, body) ==
  WriteInt32LE(-2) \o WriteInt32LE(id) \o << total, k >>
    \o << Len(body) % 256, Len(body) \div 256 >>
    \o (IF k = 0 THEN WriteInt32LE(size) \o WriteInt32LE(checksum) \o FFFF
        ELSE << >>)
    \o body

\* the CRC32 of the rules payload (0xF850E062), as a signed 32-bit integer,
\* and a value that is not its CRC32
RulesChecksum == [right |-> -128917406, wrong |-> -128917405]

\* the compressed stream of the rules payload, cut in two bodies
CompressedBodies == Bodies(BzipMagic \o RulesPayload, 5)

\* the datagrams of a compressed rules response (the low byte of its id has
\* the top bit set) whose datagram 0 declares a checksum that is not the
\* payload's
CompressedDatagram(k) ==
  CompressedFragment(130, 2, k, Len(RulesPayload), RulesChecksum.wrong,
                     CompressedBodies[k + 1])

\* the checksum that datagram 0 of a compressed response declares
DeclaredChecksum(msg) == I32(msg[17], msg[18], msg[19], msg[20])

ErrArrivals ==
  { Arrival(m, "a1") :
      m \in { InfoDatagram(17, 730), << >> }
            \cup NoBuffers \cup BadHeaderDatagrams
            \cup { CompressedDatagram(k) : k \in {0, 1} } }

InitErr ==
  /\ Init
  /\ connections \in { Undef, Some(<< >>), Some(<< Connection("h1", Port) >>),
                       Some(<< Connection("nohost", Port), Connection("h1", Port) >>) }

\* the 'error' events of the socket so far
SocketErrors ==
  Len(SelectSeq(events, LAMBDA e : e.name = "error" /\ e.data = Some("socket error")))

\* _handleSocketError(err): emits 'error' with the error and returns true
handleSocketError(err) == << Emit("error", 0, err) >>

\* the socket's 'error' event
SocketError ==
  /\ proc = "running"
  /\ socket = "open"
  /\ SocketErrors < MaxErrors
  /\ Record(Call("error", 0, << >>, "", handleSocketError("socket error"),
                 "true", Undef))
  /\ UNCHANGED <<proc, socket, timeout, connections, qpc, qi, inflight, served, stale>>

\* the handler runs on a datagram, or is called with something else
ReceiveErr ==
  /\ proc = "running"
  /\ socket = "open"
  /\ nmsgs < MaxMsgs
  /\ \E a \in ErrArrivals, now \in ClockReadings :
        Deliver(a.msg, a.address, now)
  /\ UNCHANGED <<qpc, qi, inflight, served, stale>>

NextErr ==
  \/ Connect
  \/ Query
  \/ ResolveDone
  \/ ResolveFail
  \/ ReceiveErr
  \/ SocketError
  \/ SocketTimeout

\* a timer armed by setTimeout expires unless it is cleared
SpecErr == InitErr /\ [][NextErr]_vars /\ WF_vars(SocketTimeout)

-----------------------------------------------------------------------------
(* The run ends once *)

\* C1: in a run of connect(), query() and any interleaving of datagrams,
\* DNS completions and timer expiry, 'done' is never emitted twice and
\* socket.close() is never called twice; once the run has ended, by
\* completion (timer cleared) or by timeout (timer fired) or with the
\* socket closed, each has happened exactly once.
C1_DoneOnceCloseOnce ==
  /\ DoneCount <= 1
  /\ closeCalls <= 1
  /\ (socket = "closed" \/ timeout \in {"fired", "cleared"})
       => (DoneCount = 1 /\ closeCalls = 1)

\* a run that ended by completion: _checkIfDone emitted 'done', cleared the
\* timer and closed the socket
C1_Completed ==
  /\ last.cb = "message"
  /\ Has(last.effects, "clearTimeout")
  /\ timeout = "cleared"
  /\ socket = "closed"
  /\ DoneCount = 1
  /\ closeCalls = 1

\* C2: after query() armed the deadline on an endpoint list, 'done' is
\* eventually emitted whatever arrives: in every state either 'done' was
\* emitted or the timer is still pending in a running process, and an
\* expired timer has closed the socket and emitted 'done' without 'error'.
C2_DoneOrTimerPending ==
  timeout # "null" =>
    /\ DoneCount = 1 \/ (proc = "running" /\ timeout = "armed")
    /\ (last.cb = "timeout") =>
          /\ socket = "closed"
          /\ last.effects = << Close, Emit("done", 0, connections) >>

\* every endpoint of a non-empty list has its four results
Fulfilled == NumConnections > 0 /\ everyFulfilled(Get(connections))

\* C3: the datagram that makes every endpoint have info, player, rules and
\* ping completes the run at once: the timer is cancelled, the socket closed
\* and 'done' emitted with the list.
C3_CompletesWhenFulfilled ==
  [][ (Delivery /\ ~Fulfilled /\ Fulfilled')
        => /\ timeout' = "cleared"
           /\ socket' = "closed"
           /\ DoneCount' = DoneCount + 1 ]_vars

-----------------------------------------------------------------------------
(* The request sequence of an endpoint *)

ExpectedRequests ==
  << Request(84, 0),
     Request(85, -1), Request(85, ServerTokens.player),
     Request(86, -1), Request(86, ServerTokens.rules),
     Request(105, 0) >>

ExpectedEvents == << "info", "challenge", "player", "challenge", "rules", "ping" >>

\* C4: with a server that answers every request with one well-formed
\* response of the expected type, the requests sent to an endpoint are a
\* prefix of INFO, PLAYER(-1), PLAYER(token), RULES(-1), RULES(token), PING,
\* the events a prefix of info, challenge, player, challenge, rules, ping,
\* at most one request is outstanding, and after the ping event the four
\* results are stored.
C4_RequestSequence ==
  \A i \in 1..NumConnections :
     /\ IsPrefix(RequestsTo(i), ExpectedRequests)
     /\ IsPrefix(EventNames(i), ExpectedEvents)
     /\ Len(RequestsTo(i)) - Len(EventNames(i)) \in {0, 1}
     /\ Len(EventNames(i)) = Len(ExpectedEvents) =>
           LET c == Get(connections)[i]
           IN  c.info # Undef /\ c.player # Undef /\ c.rules # Undef
                 /\ c.ping # Undef

\* the challenge slot a request type reads
ChallengeSlot(c, type) ==
  IF type = "player" THEN c.challengePlayer ELSE c.challengeRules

ChallengeSlotName(type) ==
  IF type = "player" THEN "_challengePlayer" ELSE "_challengeRules"

\* C5: a player or rules request that carries a token (not -1) is sent only
\* after a token was stored in the endpoint's slot of that kind, and the
\* token on the wire is the stored one.
C5_TokenStoredBeforeSent ==
  \A k \in 1..Len(last.effects) :
     LET e == last.effects[k]
     IN  (e.op = "send" /\ e.name \in {"player", "rules"}
            /\ RequestChallenge(Get(e.data).data) # -1)
         => /\ \E j \in 1..(k - 1) :
                  last.effects[j] = Store(ChallengeSlotName(e.name), e.conn)
            /\ ChallengeSlot(Get(connections)[e.conn], e.name)
                  = Some(RequestChallenge(Get(e.data).data))

\* a rules request with a non-zero token was just sent
C5_RulesTokenSent ==
  /\ last.cb = "message"
  /\ \E k \in 1..Len(last.effects) :
        /\ last.effects[k].op = "send"
        /\ last.effects[k].name = "rules"
        /\ RequestChallenge(Get(last.effects[k].data).data) = 5
  /\ Get(connections)[last.conn].challengePlayer = Some(5)
  /\ Get(connections)[last.conn].challengeRules = Some(5)

\* C6: for every endpoint, 'info', 'player', 'rules' and 'ping' are each
\* emitted at most once and 'challenge' at most twice.
C6_EventsAtMostOnce ==
  \A i \in 1..NumConnections :
     /\ \A name \in {"info", "player", "rules", "ping"} : EventCount(i, name) <= 1
     /\ EventCount(i, "challenge") <= 2

\* the type bytes that match the stage connection i waits in, which is
\* given by the last request sent to it
Awaited(i) ==
  IF SentTo(i) = << >> THEN {}
  ELSE LET r == RequestsTo(i)[Len(SentTo(i))]
       IN  CASE r.type = 84  -> {73, 109}
             [] r.type = 85  -> IF r.challenge = -1 THEN {65} ELSE {68}
             [] r.type = 86  -> IF r.challenge = -1 THEN {65} ELSE {69}
             [] r.type = 105 -> {106}
             [] OTHER -> {}

\* C7: a response whose type byte does not match the stage its endpoint
\* waits in is surfaced as one 'error' event and changes nothing else: no
\* slot changes and no request is sent.
C7_OutOfOrderRejected ==
  [][ (Delivery /\ last'.conn > 0 /\ IsSimple(last'.msg)
         /\ last'.msg[5] \notin Awaited(last'.conn))
        => /\ connections' = connections
           /\ sent' = sent
           /\ Len(events') = Len(events) + 1
           /\ events'[Len(events')].name = "error" ]_vars

-----------------------------------------------------------------------------
(* The reassembly of split responses *)

\* the bodies of the split response a datagram belongs to
OwnBodies(msg) ==
  { SplitBodies(FragmentId(msg))[k] : k \in 1..FragmentTotal(msg) }

\* C8: a payload is handed to the parser only when all N datagrams of that
\* same response were received, and it is made of bodies of that response
\* only.
C8_YieldNeedsAllFragments ==
  \A j \in 1..Len(yields) :
     LET y == yields[j]
     IN  /\ \A k \in 0..(FragmentTotal(y.msg) - 1) :
              \E f \in fragments :
                 /\ f.address = y.address
                 /\ FragmentId(f.msg) = FragmentId(y.msg)
                 /\ FragmentNumber(f.msg) = k
         /\ y.data \in { a \o b : a, b \in OwnBodies(y.msg) }

\* C9: the first split response of an endpoint, its N datagrams delivered
\* in any order and with duplicates, yields at most once, and what it yields
\* is the concatenation of its bodies in ascending order (datagram 0
\* without its simple header).
C9_YieldsOnceInOrder ==
  \A j \in 1..Len(yields) :
     FragmentId(yields[j].msg) = 1 =>
       /\ yields[j].data = SplitPayload(1)
       /\ \A k \in 1..Len(yields) :
             (yields[k].address = yields[j].address
                /\ FragmentId(yields[k].msg) = 1) => k = j

\* C10: a datagram of a split response that was already assembled and handed
\* to the parser is discarded silently: no payload, no event, no request.
C10_LateFragmentDiscarded ==
  [][ (Delivery /\ IsFragment(last'.msg)
         /\ \E j \in 1..Len(yields) :
               /\ yields[j].address = last'.address
               /\ FragmentId(yields[j].msg) = FragmentId(last'.msg))
        => /\ yields' = yields
           /\ events' = events
           /\ sent' = sent ]_vars

-----------------------------------------------------------------------------
(* Compressed responses *)

\* the last callback combined the datagrams of a compressed response, the
\* only split datagrams so far, into the rules payload, and datagram 0 of
\* the response declared a checksum that is not the payload's CRC32
ChecksumMismatch ==
  /\ last.cb = "message"
  /\ last.conn > 0
  /\ last.yielded = Some(RulesPayload)
  /\ \A f \in fragments : FragmentId(f.msg) = FragmentId(last.msg)
  /\ \E f \in fragments :
        /\ FragmentNumber(f.msg) = 0
        /\ Compressed(FragmentId(f.msg))
        /\ DeclaredChecksum(f.msg) # RulesChecksum.right

\* C11: when the decompressed payload of a compressed split response does
\* not have the CRC32 that datagram 0 declared, the response is not parsed:
\* the callback that completes it stores nothing, sends no request and
\* emits no event other than 'error'.
C11_ChecksumVerified ==
  ChecksumMismatch =>
    \A k \in 1..Len(last.effects) :
       /\ last.effects[k].op \notin {"store", "send"}
       /\ last.effects[k].op = "emit" => last.effects[k].name = "error"

-----------------------------------------------------------------------------
(* Failures are surfaced *)

\* C12: a datagram of a known endpoint that ends before a field the parser
\* reads (an info response cut after its type byte) is surfaced as an
\* 'error' event and does not halt the run: the handler returns, the
\* process keeps running.
C12_ParseFailureSurfaced ==
  (last.cb = "message" /\ last.conn > 0 /\ last.msg = TruncatedDatagram)
    => /\ last.ret # "throw"
       /\ \E k \in 1..Len(last.effects) :
             last.effects[k].op = "emit" /\ last.effects[k].name = "error"
       /\ proc = "running"

\* C13: a failure of the socket is fatal to the run: once the socket has
\* reported an error, the socket is closed and no callback sends a request
\* any more.
C13_SocketErrorFatal ==
  SocketErrors > 0 =>
    /\ socket = "closed"
    /\ last.cb # "error" => ~Has(last.effects, "send")

-----------------------------------------------------------------------------
(* Datagrams that are discarded *)

\* the step emitted one 'error' event and nothing else, its callback
\* returned false, and it changed no connection, sent nothing and left the
\* socket and the timer as they were
Discarded ==
  /\ last'.ret = "false"
  /\ Len(last'.effects) = 1
  /\ last'.effects[1].op = "emit"
  /\ last'.effects[1].name = "error"
  /\ events' = Append(events, last'.effects[1])
  /\ connections' = connections
  /\ sent' = sent
  /\ socket' = socket
  /\ timeout' = timeout
  /\ proc' = proc

\* the framing prefix of a datagram of at least four bytes
HeaderOf(msg) == I32(msg[1], msg[2], msg[3], msg[4])

\* C14: a datagram of at least 4 bytes from a known endpoint whose framing
\* prefix is neither -1 nor -2 makes the handler emit 'error' and return
\* false; no connection changes and no request is sent.
C14_BadHeaderDiscarded ==
  [][(/\ Delivery
      /\ last'.conn > 0
      /\ IsBuffer(last'.msg)
      /\ Len(last'.msg) >= 4
      /\ HeaderOf(last'.msg) \notin {-1, -2}) => Discarded]_vars

\* a datagram with a bad header was discarded from an endpoint whose info
\* is stored
C14_BadHeaderSeen ==
  /\ last.cb = "message"
  /\ last.conn > 0
  /\ last.msg \in BadHeaderDatagrams
  /\ last.ret = "false"
  /\ Get(connections)[last.conn].info # Undef

\* no connection of the list has this address
NoEndpoint(address) ==
  /\ connections # Undef
  /\ \A k \in 1..NumConnections : Get(connections)[k].host # address

\* C15: a datagram whose source matches no endpoint of the list makes the
\* handler emit 'error' and return false; no connection changes and no
\* request is sent.
C15_UnknownSourceDiscarded ==
  [][(/\ Delivery
      /\ Len(last'.msg) > 0
      /\ NoEndpoint(last'.address)) => Discarded]_vars

\* a datagram of a stranger was discarded while two endpoints were queried
C15_StrangerSeen ==
  /\ last.cb = "message"
  /\ last.address = "a9"
  /\ last.ret = "false"
  /\ NumConnections = 2
  /\ Len(sent) > 0

\* C16: called with no message, with a message that is no Buffer or with an
\* empty Buffer, the handler emits 'error' and returns false, whether or not
\* there is a list of connections; no connection changes and no request is
\* sent.
C16_NoMessageDiscarded ==
  [][(/\ Delivery
      /\ (~IsBuffer(last'.msg) \/ Len(last'.msg) = 0)) => Discarded]_vars

\* the handler was called with no message while there was no list of
\* connections to look up, and reported it
C16_NoMessageSeen ==
  /\ last.cb = "message"
  /\ ~IsBuffer(last.msg)
  /\ connections = Undef
  /\ last.ret = "false"

-----------------------------------------------------------------------------
(* query() and its list of endpoints *)

\* the hostname of connection i resolves, or was resolved already
Resolves(i) ==
  \/ Dns(Get(connections)[i].host) # Undef
  \/ \E h \in {"h1", "h2"} : Dns(h) = Some(Get(connections)[i].host)

\* C17: once query() has returned with the deadline still pending, an
\* A2S_INFO request was sent to every endpoint of the list whose hostname
\* resolves, whatever the position of an endpoint whose hostname does not.
C17_InfoToEveryEndpoint ==
  (qpc = "returned" /\ timeout = "armed" /\ connections # Undef) =>
    \A i \in 1..NumConnections :
       Resolves(i) =>
         \E k \in 1..Len(RequestsTo(i)) : RequestsTo(i)[k].type = 84

\* C18: when the resolution of an endpoint's host fails, query() emits
\* 'error' with the error and returns normally: nothing is thrown, the
\* process keeps running.
C18_ResolveFailureEmitted ==
  [][(/\ qpc = "resolving"
      /\ Dns(Get(connections)[qi].host) = Undef
      /\ last'.cb = "resolved"
      /\ qpc' # qpc)
       => /\ qpc' = "returned"
          /\ last'.ret # "throw"
          /\ last'.effects = << Emit("error", qi, "ENOTFOUND") >>
          /\ events' = Append(events, last'.effects[1])
          /\ proc' = proc]_vars

\* query() has returned after a failed resolution, with 'error' emitted
C18_ResolveFailed ==
  /\ last.cb = "resolved"
  /\ qpc = "returned"
  /\ Dns(Get(connections)[qi].host) = Undef
  /\ EventCount(qi, "error") = 1
  /\ proc = "running"

\* C19: when query() is called while the list of endpoints is missing, the
\* 'done' event delivers an empty array.
C19_MissingListDoneEmpty ==
  connections = Undef =>
    \A k \in 1..Len(events) :
       events[k].name = "done" => events[k].data = Some(Some(<< >>))

\* query() was called on an empty list of endpoints
EmptyListQueried == connections = Some(<< >>) /\ qpc # "idle"

\* C20: when query() is called with an empty list of endpoints, no datagram
\* is ever sent, neither query() nor the deadline emits 'error', every
\* 'done' event carries an empty array, and 'done' is eventually delivered.
C20_EmptyListDone ==
  /\ [](EmptyListQueried =>
          /\ sent = << >>
          /\ last.cb \in {"query", "timeout"} =>
                \A k \in 1..Len(last.effects) :
                   /\ last.effects[k].op # "send"
                   /\ last.effects[k].op = "emit" => last.effects[k].name # "error"
          /\ \A k \in 1..Len(events) :
                events[k].name = "done" => events[k].data = Some(Some(<< >>)))
  /\ (EmptyListQueried ~> (EmptyListQueried /\ DoneCount = 1))

\* the deadline of a query on an empty list has expired and delivered 'done'
C20_EmptyListTimedOut ==
  /\ EmptyListQueried
  /\ last.cb = "timeout"
  /\ timeout = "fired"
  /\ DoneCount = 1
  /\ sent = << >>

-----------------------------------------------------------------------------
(* The socket reference *)

-----------------------------------------------------------------------------
(* The parsers and the request builder, called on their own *)

\* a string on the wire: its bytes and the terminator
CString(s) == s \o << 0 >>

\* a 16-bit value on the wire, little-endian
WriteInt16LE(v) == << v % 256, (v \div 256) % 256 >>

\* a 64-bit value as readInt(8) returns it: its eight bytes
Bytes8(b) == [k \in 1..8 |-> Some(b + k)]

\* the well-formed info payload of the application `id` that carries the
\* trailers of the flag bits in `bits`
InfoPayload(id, bits) ==
  [InfoData EXCEPT
     !.protocol = 17, !.name = << 110 >>, !.map = << 109 >>,
     !.folder = << 102 >>, !.game = << 103, 104 >>, !.id = Some(id),
     !.players = 1, !.maxplayers = 8, !.bots = 2, !.type = 100,
     !.environment = 108, !.visibility = 0, !.vac = 1,
     !.mode = IF id = 2400 THEN Some(3) ELSE Undef,
     !.witnesses = IF id = 2400 THEN Some(4) ELSE Undef,
     !.duration = IF id = 2400 THEN Some(30) ELSE Undef,
     !.version = << 49, 46 >>,
     !.port = IF 128 \in bits THEN Some(27015) ELSE Undef,
     !.steamid = IF 16 \in bits THEN Some(Bytes8(16)) ELSE Undef,
     !.spectator = IF 64 \in bits
                   THEN Some([port |-> 27020, name |-> << 115 >>]) ELSE Undef,
     !.keywords = IF 32 \in bits THEN Some(<< 107, 119 >>) ELSE Undef,
     !.gameid = IF 1 \in bits THEN Some(Bytes8(32)) ELSE Undef]

InfoPayloads == { InfoPayload(id, bits) : id \in {730, 2400}, bits \in SUBSET {128, 16, 64, 32, 1} }

\* the flag byte of a payload: a bit for each trailer it carries
FlagOf(P) ==
  (IF P.port # Undef THEN 128 ELSE 0) + (IF P.steamid # Undef THEN 16 ELSE 0)
  + (IF P.spectator # Undef THEN 64 ELSE 0) + (IF P.keywords # Undef THEN 32 ELSE 0)
  + (IF P.gameid # Undef THEN 1 ELSE 0)

\* the bytes a server sends for the info payload P, after the type byte
buildInfoPayload(P) ==
  << P.protocol >> \o CString(P.name) \o CString(P.map) \o CString(P.folder)
    \o CString(P.game) \o WriteInt16LE(Get(P.id))
    \o << P.players, P.maxplayers, P.bots, P.type, P.environment,
          P.visibility, P.vac >>
    \o (IF Get(P.id) = 2400
        THEN << Get(P.mode), Get(P.witnesses), Get(P.duration) >> ELSE << >>)
    \o CString(P.version) \o << FlagOf(P) >>
    \o (IF P.port # Undef THEN WriteInt16LE(Get(P.port)) ELSE << >>)
    \o (IF P.steamid # Undef
        THEN [k \in 1..8 |-> Get(Get(P.steamid)[k])] ELSE << >>)
    \o (IF P.spectator # Undef
        THEN WriteInt16LE(Get(P.spectator).port) \o CString(Get(P.spectator).name)
        ELSE << >>)
    \o (IF P.keywords # Undef THEN CString(Get(P.keywords)) ELSE << >>)
    \o (IF P.gameid # Undef
        THEN [k \in 1..8 |-> Get(Get(P.gameid)[k])] ELSE << >>)

\* what a call left behind: whether it returned (ok) or threw, the value it
\* returned, and the cursor of the packet it read
Returned(st) == Some([ok |-> st.p.ok, v |-> st.v, index |-> st.p.index])

\* _parseInfo(packet) on the packet of the payload P
ParseInfoCall ==
  /\ arg.fn = "parseInfo"
  /\ res = Undef
  /\ res' = Returned(parseInfo(ResponsePacket(buildInfoPayload(arg.P))))
  /\ UNCHANGED <<proc, socket, timeout, connections, qpc, qi, inflight, served, stale,
                 events, sent, closeCalls, queries, nmsgs, fragments, yields, last, arg>>

\* the n-th player of a server, with the two more fields of The Ship when
\* `ship`
Player(n, ship) ==
  [PlayerData EXCEPT
     !.index = n - 1, !.name = << 111 + n >>, !.score = 3 * n, !.duration = 64 + n,
     !.deaths = IF ship THEN Some(n) ELSE Undef,
     !.money = IF ship THEN Some(100 * n) ELSE Undef]

Players(count, ship) == [n \in 1..count |-> Player(n, ship)]

\* a player record on the wire
buildPlayer(r) ==
  << r.index >> \o CString(r.name) \o WriteInt32LE(r.score)
    \o WriteInt32LE(r.duration)
    \o (IF r.deaths # Undef
        THEN WriteInt32LE(Get(r.deaths)) \o WriteInt32LE(Get(r.money))
        ELSE << >>)

RECURSIVE buildPlayers(_)
buildPlayers(players) ==
  IF players = << >> THEN << >>
  ELSE buildPlayer(Head(players)) \o buildPlayers(Tail(players))

\* the bytes a server sends for a list of players that it announces as
\* numplayers, after the type byte
buildPlayerPayload(numplayers, players) ==
  << numplayers >> \o buildPlayers(players)

\* the info records an endpoint may have stored: of a Source game, of The
\* Ship, of a GoldSource game, and the obsolete record
StoredInfos ==
  { InfoPayload(id, {}) : id \in {730, 2400, 70} }
  \cup { [ObsoleteData EXCEPT !.protocol = 47] }

\* the one connection of a list, with this info stored
WithInfo(info) == Some(<< [Connection("a1", Port) EXCEPT !.info = Some(info)] >>)

\* _handleSocketMessage on a player response of the server whose info is
\* stored: a server of The Ship sends records of six fields
PlayerResponseCall ==
  /\ arg.fn = "playerResponse"
  /\ res = Undef
  /\ LET r == handleSocketMessage(
                WithInfo(arg.info),
                FFFF \o << 68 >> \o buildPlayerPayload(Len(arg.players), arg.players),
                "a1", Port, 100)
     IN  res' = Some([ok |-> r.ret # "throw",
                      v |-> Get(r.conns)[1].player,
                      effects |-> r.effects])
  /\ UNCHANGED <<proc, socket, timeout, connections, qpc, qi, inflight, served, stale,
                 events, sent, closeCalls, queries, nmsgs, fragments, yields, last, arg>>

\* the types a request is asked for, two of them none of the builder's,
\* and the challenges: none, and tokens a server may issue
RequestTypes == {"info", "player", "rules", "challenge", "ping", "INFO", "status"}

RequestChallenges == { Undef, Some(0), Some(5), Some(-2), Some(16909060) }

\* new RequestPacket(type, challenge): no statement of the constructor or
\* of its methods throws
RequestPacketCall ==
  /\ arg.fn = "RequestPacket"
  /\ res = Undef
  /\ res' = Some([ok |-> TRUE, v |-> RequestPacket(arg.type, arg.challenge)])
  /\ UNCHANGED <<proc, socket, timeout, connections, qpc, qi, inflight, served, stale,
                 events, sent, closeCalls, queries, nmsgs, fragments, yields, last, arg>>

\* the buffers readString is called on: up to three bytes, each 0x00, 'a'
\* or 'b'
StringBuffers ==
  UNION { [1..n -> {0, 97, 98}] : n \in 0..MaxLen }

\* packet.readString() with the cursor at arg.index
ReadStringCall ==
  /\ arg.fn = "readString"
  /\ res = Undef
  /\ LET r == readString([ResponsePacket(arg.data) EXCEPT !.index = arg.index])
     IN  res' = Some([ok |-> r.p.ok, v |-> r.v, index |-> r.p.index])
  /\ UNCHANGED <<proc, socket, timeout, connections, qpc, qi, inflight, served, stale,
                 events, sent, closeCalls, queries, nmsgs, fragments, yields, last, arg>>

\* the info an endpoint may have stored when a split datagram arrives: none
\* yet, or a record of protocol 17, 7 or 47 (the obsolete record)
InfoSlots ==
  { Undef }
  \cup { Some(info) : info \in StoredInfos }
  \cup { Some([InfoPayload(id, {}) EXCEPT !.protocol = protocol]) :
           id \in {199, 200, 215, 240, 17550, 17700}, protocol \in {7, 17} }
  \cup { Some([ObsoleteData EXCEPT !.protocol = 7]) }

\* the application id of a stored info is known and below 200
GoldSourceLayout(info) ==
  /\ info # Undef
  /\ Get(info).id # Undef
  /\ Get(Get(info).id) < 200

\* a Source datagram of this endpoint carries no packet size
NoPacketSize(info) ==
  /\ info # Undef
  /\ Get(info).protocol = 7
  /\ Get(info).id # Undef
  /\ Get(Get(info).id) \in {215, 17550, 17700, 240}

\* datagram k of a split response of `total` datagrams, as the server of an
\* endpoint with this info lays it out
LaidOut(info, id, total, k, body) ==
  WriteInt32LE(-2) \o WriteInt32LE(id)
    \o (IF GoldSourceLayout(info) THEN << 16 * k + total >>
        ELSE << total, k >>
             \o (IF NoPacketSize(info) THEN << >> ELSE WriteInt16LE(Len(body))))
    \o (IF k = 0 THEN FFFF ELSE << >>) \o body

\* _parseMultiPacket on datagram arg.k of a response of two, the packet's
\* cursor after the header -2, for a connection with the info arg.info
ParseMultiPacketCall ==
  /\ arg.fn = "parseMultiPacket"
  /\ res = Undef
  /\ LET msg == LaidOut(arg.info, 1, 2, arg.k, arg.body)
         r   == parseMultiPacket(readInt(ResponsePacket(msg), 4).p,
                                 [Connection("a1", Port) EXCEPT !.info = arg.info])
     IN  res' = Some([ok |-> ~r.threw, v |-> r.conn.packets, result |-> r.result])
  /\ UNCHANGED <<proc, socket, timeout, connections, qpc, qi, inflight, served, stale,
                 events, sent, closeCalls, queries, nmsgs, fragments, yields, last, arg>>

\* the player responses the parser is called on: two players, announced as
\* two or as three, cut after any number of bytes past the count
CutPlayerPayloads ==
  { [fn |-> "parsePlayer", ship |-> ship, numplayers |-> n, cut |-> cut] :
      ship \in BOOLEAN, n \in {2, 3}, cut \in 1..39 }

\* the bytes of such a response
CutPayload(a) ==
  LET full == buildPlayerPayload(a.numplayers, Players(2, a.ship))
  IN  SubSeq(full, 1, IF a.cut < Len(full) THEN a.cut ELSE Len(full))

\* _parsePlayer(packet, appId) on a packet of those bytes
ParsePlayerCall ==
  /\ arg.fn = "parsePlayer"
  /\ res = Undef
  /\ res' = Returned(parsePlayer(ResponsePacket(CutPayload(arg)),
                                 IF arg.ship THEN Some(2400) ELSE Some(730)))
  /\ UNCHANGED <<proc, socket, timeout, connections, qpc, qi, inflight, served, stale,
                 events, sent, closeCalls, queries, nmsgs, fragments, yields, last, arg>>

\* the counts a rules response may announce, as signed 16-bit integers
RuleCounts == {-32768, -1, 0, 1, 2, 3, 32767}

\* rules payloads after the type byte: a count and up to MaxLen bytes
RulesBuffers ==
  { WriteInt16LE(n % 65536) \o body : n \in RuleCounts, body \in StringBuffers }

\* _parseRules(packet) on a packet of those bytes
ParseRulesCall ==
  /\ arg.fn = "parseRules"
  /\ res = Undef
  /\ res' = Returned(parseRules(ResponsePacket(arg.data)))
  /\ UNCHANGED <<proc, socket, timeout, connections, qpc, qi, inflight, served, stale,
                 events, sent, closeCalls, queries, nmsgs, fragments, yields, last, arg>>

\* an instance on which nothing is called but the function under test
InitCalls ==
  /\ proc = "running"
  /\ socket = "null"
  /\ timeout = "null"
  /\ connections = Undef
  /\ qpc = "idle"
  /\ qi = 0
  /\ inflight = {}
  /\ served = 0
  /\ stale = 0
  /\ events = << >>
  /\ sent = << >>
  /\ closeCalls = 0
  /\ queries = 0
  /\ nmsgs = 0
  /\ fragments = {}
  /\ yields = << >>
  /\ last = NoCall
  /\ res = Undef
  /\ \/ arg \in { [fn |-> "parseInfo", P |-> P] : P \in InfoPayloads }
     \/ \E info \in StoredInfos, count \in 0..2 :
           arg = [fn |-> "playerResponse", info |-> info,
                  players |-> Players(count, info.id = Some(2400))]
     \/ arg \in { [fn |-> "RequestPacket", type |-> t, challenge |-> c] :
                    t \in RequestTypes, c \in RequestChallenges }
     \/ \E d \in StringBuffers, i \in 0..MaxLen :
           /\ i <= Len(d)
           /\ arg = [fn |-> "readString", data |-> d, index |-> i]
     \/ arg \in { [fn |-> "parseMultiPacket", info |-> info, k |-> k,
                    body |-> SplitBodies(1)[k + 1]] :
                    info \in InfoSlots, k \in {0, 1} }
     \/ arg \in CutPlayerPayloads
     \/ arg \in { [fn |-> "parseRules", data |-> d] : d \in RulesBuffers }

NextCalls ==
  \/ ParseInfoCall
  \/ PlayerResponseCall
  \/ RequestPacketCall
  \/ ReadStringCall
  \/ ParseMultiPacketCall
  \/ ParsePlayerCall
  \/ ParseRulesCall

SpecCalls == InitCalls /\ [][NextCalls]_vars

-----------------------------------------------------------------------------
(* The info parser *)

\* C22: for every well-formed Source info payload P, with any combination
\* of the extra data flag bits, parsing the encoding of P returns P and
\* consumes the encoding to its end; each trailer is present in the result
\* exactly when its bit is set, and the Ship fields exactly when the
\* application id is 2400.
C22_InfoRoundTrip ==
  (arg.fn = "parseInfo" /\ res # Undef) =>
    /\ Get(res).ok
    /\ Get(res).v = arg.P
    /\ Get(res).index = Len(buildInfoPayload(arg.P))
    /\ Get(res).v.port # Undef <=> (FlagOf(arg.P) \div 128) % 2 = 1
    /\ Get(res).v.steamid # Undef <=> (FlagOf(arg.P) \div 16) % 2 = 1
    /\ Get(res).v.spectator # Undef <=> (FlagOf(arg.P) \div 64) % 2 = 1
    /\ Get(res).v.keywords # Undef <=> (FlagOf(arg.P) \div 32) % 2 = 1
    /\ Get(res).v.gameid # Undef <=> FlagOf(arg.P) % 2 = 1
    /\ \A f \in {"mode", "witnesses", "duration"} :
          Get(res).v[f] # Undef <=> Get(arg.P.id) = 2400

\* the payload of The Ship with all five trailers was parsed
C22_AllTrailersParsed ==
  /\ arg.fn = "parseInfo"
  /\ res # Undef
  /\ Get(arg.P.id) = 2400
  /\ FlagOf(arg.P) = 241
  /\ Get(res).v.gameid = Some(Bytes8(32))

-----------------------------------------------------------------------------
(* The player parser *)

\* C23: a player response is parsed with records of six fields (deaths and
\* money after index, name, score and duration) exactly when the
\* application id of the endpoint's stored info is 2400, and with records
\* of four fields otherwise, also when the stored info is the obsolete
\* record, which has no application id; the players stored are the players
\* the server sent.
C23_PlayerRecordByAppId ==
  (arg.fn = "playerResponse" /\ res # Undef) =>
    /\ Get(res).ok
    /\ Get(res).v = Some([players |-> arg.players])
    /\ \A k \in 1..Len(Get(Get(res).v).players) :
          LET r == Get(Get(res).v).players[k]
          IN  /\ r.deaths # Undef <=> arg.info.id = Some(2400)
              /\ r.money # Undef <=> arg.info.id = Some(2400)

\* two players of The Ship were parsed with their six fields
C23_ShipPlayersParsed ==
  /\ arg.fn = "playerResponse"
  /\ res # Undef
  /\ arg.info.id = Some(2400)
  /\ Len(Get(Get(res).v).players) = 2
  /\ Get(Get(res).v).players[2].money = Some(200)

-----------------------------------------------------------------------------
(* The request builder *)

\* the type byte of each request
TypeBytes == [info |-> 84, player |-> 85, rules |-> 86, challenge |-> 87, ping |-> 105]

\* C24: every request the builder produces is a buffer that starts with
\* FF FF FF FF and the type byte; info is 25 bytes, "Source Engine Query"
\* and a 0x00 after the type byte; player and rules are 9 bytes, the
\* challenge as a little-endian int32 after the type byte, FF FF FF FF when
\* no challenge is given; challenge and ping are 5 bytes.
C24_RequestLayout ==
  (arg.fn = "RequestPacket" /\ res # Undef /\ arg.type \in DOMAIN TypeBytes) =>
    LET d == Get(res).v
        c == SubSeq(d, 6, 9)
    IN  /\ Get(res).ok
        /\ IsBuffer(d)
        /\ SubSeq(d, 1, 5) = << 255, 255, 255, 255, TypeBytes[arg.type] >>
        /\ arg.type = "info" =>
             /\ Len(d) = 25
             /\ SubSeq(d, 6, 25) = SourceEngineQuery \o << 0 >>
        /\ arg.type \in {"player", "rules"} =>
             /\ Len(d) = 9
             /\ arg.challenge = Undef => c = << 255, 255, 255, 255 >>
             /\ arg.challenge = Some(0) => c = << 0, 0, 0, 0 >>
             /\ arg.challenge = Some(5) => c = << 5, 0, 0, 0 >>
             /\ arg.challenge = Some(-2) => c = << 254, 255, 255, 255 >>
             /\ arg.challenge = Some(16909060) => c = << 4, 3, 2, 1 >>
        /\ arg.type \in {"challenge", "ping"} => Len(d) = 5

\* a rules request was built with the challenge 0x01020304
C24_RulesRequestBuilt ==
  /\ arg.fn = "RequestPacket"
  /\ arg.type = "rules"
  /\ arg.challenge = Some(16909060)
  /\ res # Undef
  /\ Get(res).v = << 255, 255, 255, 255, 86, 4, 3, 2, 1 >>

\* C25: asked for a type other than info, player, rules, challenge or ping,
\* the request builder fails with an error: it returns nothing.
C25_UnknownTypeFails ==
  (arg.fn = "RequestPacket" /\ res # Undef /\ arg.type \notin DOMAIN TypeBytes)
    => ~Get(res).ok

-----------------------------------------------------------------------------
(* readString *)

\* the positions of the terminators at or after the cursor
Terminators(d, i) == { k \in (i + 1)..Len(d) : d[k] = 0 }

\* the first of them
FirstTerminator(d, i) ==
  CHOOSE k \in Terminators(d, i) : \A j \in Terminators(d, i) : k <= j

\* C26: readString returns the bytes from the cursor up to the next 0x00,
\* not including it, and leaves the cursor just past that terminator; when
\* the buffer ends before a terminator it fails instead of returning a
\* value.
C26_ReadString ==
  (arg.fn = "readString" /\ res # Undef) =>
    IF Terminators(arg.data, arg.index) # {}
    THEN /\ Get(res).ok
         /\ Get(res).v = SubSeq(arg.data, arg.index + 1,
                                FirstTerminator(arg.data, arg.index) - 1)
         /\ Get(res).index = FirstTerminator(arg.data, arg.index)
    ELSE ~Get(res).ok

-----------------------------------------------------------------------------
(* Challenge tokens *)

\* the requests the step sent, as type byte and challenge
StepRequests ==
  LET es == Select(last'.effects, "send")
  IN  [k \in 1..Len(es) |-> RequestOf(es[k])]

\* C27: for every token a server issues, 0 included: a challenge response
\* of an endpoint with no player challenge stored is stored as its player
\* challenge and answered with the player request carrying the token; once
\* a player challenge is stored, the player list is answered with the rules
\* request carrying -1, and a challenge response is stored as the rules
\* challenge and answered with the rules request carrying the token.
C27_ChallengeBinding ==
  [][(Delivery /\ last'.conn > 0 /\ last'.ret = "true") =>
       LET i     == last'.conn
           c     == Get(connections)[i]
           d     == Get(connections')[i]
           token == I32(last'.msg[6], last'.msg[7], last'.msg[8], last'.msg[9])
       IN  /\ (IsSimple(last'.msg) /\ last'.msg[5] = 65) =>
                IF c.challengePlayer = Undef
                THEN /\ d.challengePlayer = Some(token)
                     /\ d.challengeRules = c.challengeRules
                     /\ StepRequests = << Request(85, token) >>
                ELSE /\ d.challengeRules = Some(token)
                     /\ d.challengePlayer = c.challengePlayer
                     /\ StepRequests = << Request(86, token) >>
           /\ (last'.msg = PlayerDatagram /\ c.challengePlayer # Undef) =>
                StepRequests = << Request(86, -1) >>]_vars

-----------------------------------------------------------------------------
(* Reassembly state *)

\* C28: right after a combined payload was handed to the parser, the
\* endpoint holds no fragment array and no compression metadata.
C28_BuffersReleased ==
  (last.cb = "message" /\ last.conn > 0 /\ last.yielded # Undef) =>
    /\ Get(connections)[last.conn].packets = Undef
    /\ Get(connections)[last.conn].compression = Undef

-----------------------------------------------------------------------------
(* The layout of a split datagram *)

\* C29: a split datagram is read in the GoldSource layout (one byte, the
\* packet's number in the upper nibble and the total in the lower) exactly
\* when the application id of the endpoint's stored info is known and below
\* 200, and in the Source layout (total, number) otherwise, also when no
\* info is stored yet or the stored info is the obsolete record; in the
\* Source layout the packet size is read unless the protocol is 7 and the
\* application id is 215, 17550, 17700 or 240.  So a datagram laid out in
\* this way is stored, whole body, at its number in an array of the total.
C29_LayoutByStoredInfo ==
  (arg.fn = "parseMultiPacket" /\ res # Undef) =>
    /\ Get(res).ok
    /\ Get(res).result = Undef
    /\ Get(res).v = Some([j \in 1..2 |-> IF j = arg.k + 1 THEN Some(arg.body)
                                          ELSE Undef])

-----------------------------------------------------------------------------
(* Player responses that end early *)

\* the records of the response that are completely present in its bytes
CompleteRecords(a) ==
  LET players == Players(2, a.ship)
      whole   == { j \in 0..2 :
                     Len(buildPlayerPayload(a.numplayers, SubSeq(players, 1, j)))
                       <= Len(CutPayload(a)) }
  IN  SubSeq(players, 1, Cardinality(whole) - 1)

\* C30: on every player response, also one that ends in the middle of a
\* record or holds fewer records than it announces, the player parser
\* returns without an error the records that are completely present.
C30_UnderrunTolerated ==
  (arg.fn = "parsePlayer" /\ res # Undef) =>
    /\ Get(res).ok
    /\ Get(res).v = [players |-> CompleteRecords(arg)]

-----------------------------------------------------------------------------
(* Endpoints do not share state *)

\* the sends of the step
StepSends == Select(last'.effects, "send")

\* C31: the handling of a datagram routed to endpoint i leaves every other
\* endpoint as it was, slot by slot (results, challenges, ping timestamp,
\* fragment array, compression metadata), keeps the list's length, and
\* sends only to endpoint i, at the host and port of endpoint i.
C31_OtherEndpointsUntouched ==
  [][(Delivery /\ last'.conn > 0) =>
       LET i  == last'.conn
           cs == Get(connections)
           ds == Get(connections')
       IN  /\ Len(ds) = Len(cs)
           /\ \A j \in 1..Len(cs) : j # i => ds[j] = cs[j]
           /\ \A k \in 1..Len(StepSends) :
                /\ StepSends[k].conn = i
                /\ Get(StepSends[k].data).host = cs[i].host
                /\ Get(StepSends[k].data).port = cs[i].port]_vars

\* the last datagram of a split response of the first endpoint was handled
\* and answered while the second endpoint holds a result and a fragment
\* array of its own
C31_HandledBesideBusyEndpoint ==
  /\ last.cb = "message"
  /\ last.conn = 1
  /\ last.yielded # Undef
  /\ Has(last.effects, "send")
  /\ NumConnections = 2
  /\ Get(connections)[2].info # Undef
  /\ Get(connections)[2].packets # Undef

-----------------------------------------------------------------------------
(* The start of a run *)

\* C32: while query() still awaits the resolution of a hostname the timer
\* is not armed yet (so it cannot expire) and no request was sent; once a
\* request was sent the timer has been armed.
C32_TimerAfterResolution ==
  /\ qpc = "resolving" => (timeout = "null" /\ sent = << >>)
  /\ sent # << >> => timeout # "null"

-----------------------------------------------------------------------------
(* After the run has ended *)

\* C33: once 'done' was emitted and the socket is closed, no step emits an
\* event, hands a datagram to the socket or attempts a send that fails.
C33_QuietAfterDone ==
  [][(DoneCount > 0 /\ socket = "closed") =>
       /\ events' = events
       /\ sent' = sent
       /\ (last' = last \/ ~Has(last'.effects, "sendfail"))]_vars

-----------------------------------------------------------------------------
(* A list that names the same server twice: by the same hostname, or by two *)
(* hostnames that resolve to the same address                               *)

DupLists ==
  { Some(<< Connection("h1", Port), Connection("h1", Port) >>),
    Some(<< Connection("h1", Port), Connection("h1b", Port) >>) }

\* the server's responses, in any order
DupArrivals ==
  { Arrival(m, "a1") :
      m \in { InfoDatagram(17, 730), ChallengeDatagram(5), PlayerDatagram,
              RulesDatagram, PingDatagram } }

InitDup ==
  /\ proc = "running"
  /\ socket = "null"
  /\ timeout = "null"
  /\ connections \in DupLists
  /\ qpc = "idle"
  /\ qi = 0
  /\ inflight = {}
  /\ served = 0
  /\ stale = 0
  /\ events = << >>
  /\ sent = << >>
  /\ closeCalls = 0
  /\ queries = 0
  /\ nmsgs = 0
  /\ fragments = {}
  /\ yields = << >>
  /\ last = NoCall
  /\ arg = Undef
  /\ res = Undef

ReceiveDup ==
  /\ proc = "running"
  /\ socket = "open"
  /\ nmsgs < MaxMsgs
  /\ \E a \in DupArrivals, now \in ClockReadings :
        Deliver(a.msg, a.address, now)
  /\ UNCHANGED <<qpc, qi, inflight, served, stale>>

NextDup ==
  \/ Connect
  \/ Query
  \/ ResolveDone
  \/ ReceiveDup
  \/ SocketTimeout

SpecDup == InitDup /\ [][NextDup]_vars

\* the entries of the list a datagram from this address and port may be for
Matching(cs, address, port) ==
  { j \in 1..Len(cs) : cs[j].host = address /\ cs[j].port = port }

FirstOf(M) == CHOOSE j \in M : \A k \in M : j <= k

\* an entry with an earlier entry of the same host and port
Shadowed(cs, j) ==
  \E k \in 1..(j - 1) : cs[k].host = cs[j].host /\ cs[k].port = cs[j].port

\* what a step did about one endpoint: its events, stores and sends
AboutEndpoint(e) ==
  e.op \in {"store", "send"} \/ (e.op = "emit" /\ e.name # "done")

\* C34: a datagram whose source matches entries of the list changes only
\* the first of them in list order, and every event, store and send of the
\* step is about that entry; an entry that has an earlier entry with the
\* same host and port holds no result; and 'done' is emitted only by the
\* timeout.
C34_FirstMatchOnly ==
  [][LET cs == Get(connections)
         ds == Get(connections')
         M  == Matching(cs, last'.address, Port)
     IN  /\ (Delivery /\ M # {}) =>
               /\ \A j \in 1..Len(cs) : j # FirstOf(M) => ds[j] = cs[j]
               /\ \A k \in 1..Len(last'.effects) :
                    AboutEndpoint(last'.effects[k]) =>
                      last'.effects[k].conn = FirstOf(M)
         /\ \A j \in 1..Len(ds) :
               Shadowed(ds, j) =>
                 /\ ds[j].info = Undef
                 /\ ds[j].player = Undef
                 /\ ds[j].rules = Undef
                 /\ ds[j].ping = Undef
         /\ DoneCount' > DoneCount => last'.cb = "timeout"]_vars

\* both entries are resolved to the same address, the first holds all four
\* results, and the run has ended
C34_FirstFilledRunEnded ==
  /\ qpc = "returned"
  /\ Matching(Get(connections), "a1", Port) = {1, 2}
  /\ everyFulfilled(<< Get(connections)[1] >>)
  /\ DoneCount = 1

-----------------------------------------------------------------------------
(* A compressed split response followed by an uncompressed one *)

\* the datagrams of a compressed rules response that declares the CRC32 of
\* its payload
SoundCompressedDatagram(k) ==
  CompressedFragment(130, 2, k, Len(RulesPayload), RulesChecksum.right,
                     CompressedBodies[k + 1])

\* the info response, the compressed rules response, and an uncompressed
\* split rules response
CmpArrivals ==
  { Arrival(InfoDatagram(17, 730), "a1") }
  \cup { Arrival(SoundCompressedDatagram(k), "a1") : k \in {0, 1} }
  \cup { Arrival(SplitDatagram(2, k), "a1") : k \in {0, 1} }

\* the server sends the uncompressed response after the compressed one was
\* assembled
AfterCompressed(a) ==
  (IsFragment(a.msg) /\ ~Compressed(FragmentId(a.msg)))
    => \E j \in 1..Len(yields) :
          yields[j].address = a.address /\ Compressed(FragmentId(yields[j].msg))

ReceiveCmp ==
  /\ proc = "running"
  /\ socket = "open"
  /\ nmsgs < MaxMsgs
  /\ \E a \in CmpArrivals, now \in ClockReadings :
        /\ AfterCompressed(a)
        /\ Deliver(a.msg, a.address, now)
  /\ UNCHANGED <<qpc, qi, inflight, served, stale>>

NextCmp ==
  \/ Connect
  \/ Query
  \/ ResolveDone
  \/ ReceiveCmp
  \/ SocketTimeout

SpecCmp == InitMP /\ [][NextCmp]_vars

\* the fragment array of the endpoint holds as many fragments as the
\* datagram announces
AllStored(c, msg) ==
  c.packets # Undef /\ NumDefined(Get(c.packets)) = FragmentTotal(msg)

\* what the handler obtains from the fragments stored, decoded or as they
\* are
Assembled(c, decode) ==
  LET raw == concatFrom(Get(c.packets), 1)
  IN  IF ~decode THEN Some(raw)
      ELSE IF bzipDecode(raw, 0).ok THEN Some(bzipDecode(raw, 0).v)
      ELSE Undef

\* C35: when a datagram of a split response completes the endpoint's
\* fragment array, the handler obtains the decoded concatenation if the
\* response is a compressed one (the bit is in the id every datagram of the
\* response carries), and the concatenation as it is if the response is
\* not, whatever the endpoint received before.
C35_DecodedIffCompressed ==
  [][(Delivery /\ IsFragment(last'.msg) /\ last'.conn > 0
        /\ Get(connections)[last'.conn].info # Undef
        /\ AllStored(Get(connections')[last'.conn], last'.msg)) =>
       last'.yielded = Assembled(Get(connections')[last'.conn],
                                 Compressed(FragmentId(last'.msg)))]_vars

-----------------------------------------------------------------------------
(* query() called again on the same instance, the caller assigning          *)
(* this.connections before each later call (src/test/index.js:30-60)        *)

\* what the caller assigns: nothing (`delete`), an empty list, one server
RequeryLists ==
  { Undef, Some(<< >>), Some(<< Connection("h1", Port) >>) }

\* a later call of query(), once the call before it has returned.  With no
\* connections it closes the socket, which throws when the socket is
\* closed already: the promise query() returned is rejected.  Otherwise
\* setTimeout overwrites this.timeout, and a timer still pending is left
\* without a handle.
QueryAgain ==
  /\ proc = "running"
  /\ socket # "null"
  /\ qpc = "returned"
  /\ queries < MaxQueries
  /\ \E list \in RequeryLists :
        /\ connections' = list
        /\ IF list = Undef
           THEN /\ socket' = "closed"
                /\ Record(Call("query", 0, << >>, "",
                               IF socket = "open"
                               THEN << Close, Emit("done", 0, Undef) >>
                               ELSE << Close >>,
                               IF socket = "open" THEN "" ELSE "throw", Undef))
                /\ UNCHANGED <<timeout, qpc, qi, stale>>
           ELSE /\ timeout' = "armed"
                /\ stale' = IF timeout = "armed" THEN stale + 1 ELSE stale
                /\ IF Len(Get(list)) = 0
                   THEN qpc' = "returned" /\ qi' = qi
                   ELSE qpc' = "resolving" /\ qi' = 1
                /\ Record(Call("query", 0, << >>, "", << >>, "", Undef))
                /\ UNCHANGED socket
  /\ UNCHANGED <<proc, inflight, served>>

\* a timer that this.timeout no longer holds expires: _socketTimeout
StaleTimeout ==
  /\ proc = "running"
  /\ stale > 0
  /\ stale' = stale - 1
  /\ IF socket = "open"
     THEN /\ socket' = "closed"
          /\ Record(Call("timeout", 0, << >>, "",
                         socketTimeout(connections), "true", Undef))
          /\ proc' = proc
     ELSE /\ socket' = socket
          /\ Record(Call("timeout", 0, << >>, "", << Close >>, "throw", Undef))
          /\ proc' \in UncaughtOutcomes
  /\ UNCHANGED <<timeout, connections, qpc, qi, inflight, served>>

\* the four results of the server, in any order
ReArrivals ==
  { Arrival(m, "a1") :
      m \in { InfoDatagram(17, 730), PlayerDatagram, RulesDatagram, PingDatagram } }

ReceiveRe ==
  /\ proc = "running"
  /\ socket = "open"
  /\ nmsgs < MaxMsgs
  /\ \E a \in ReArrivals, now \in ClockReadings :
        Deliver(a.msg, a.address, now)
  /\ UNCHANGED <<qpc, qi, inflight, served, stale>>

InitRe ==
  /\ Init
  /\ connections \in { Some(<< >>), Some(<< Connection("h1", Port) >>) }

NextRe ==
  \/ Connect
  \/ Query
  \/ QueryAgain
  \/ ResolveDone
  \/ ReceiveRe
  \/ SocketTimeout
  \/ StaleTimeout

SpecRe == InitRe /\ [][NextRe]_vars

\* the timers that were armed and have neither fired nor been cleared
PendingTimers == stale + (IF timeout = "armed" THEN 1 ELSE 0)

\* C36: at most one timer is pending after every step, and a timer armed
\* by an earlier call of query() fires only while the socket is open.
C36_OneTimerPending ==
  [][/\ PendingTimers' <= 1
     /\ stale' < stale => socket = "open"]_vars

-----------------------------------------------------------------------------
(* The ping value *)

\* C37: a ping echo handled for an endpoint whose ping request was sent
\* stores a number greater than zero, which the completion check counts as
\* a result.
C37_PingPositive ==
  [][(Delivery /\ last'.msg = PingDatagram /\ last'.conn > 0
        /\ Get(connections)[last'.conn].timestamp # Undef) =>
       LET ping == Get(connections')[last'.conn].ping
       IN  /\ ping # Undef
           /\ ~Get(ping).nan
           /\ Get(ping).n > 0
           /\ TruthyNum(ping)]_vars

-----------------------------------------------------------------------------
(* The order of the effects of one response *)

Stages == {"info", "player", "rules", "ping"}

\* the result slot of a stage
SlotOf(c, stage) ==
  CASE stage = "info" -> c.info
    [] stage = "player" -> c.player
    [] stage = "rules" -> c.rules
    [] stage = "ping" -> c.ping

\* the step emitted a stage event
StageStep ==
  /\ Delivery
  /\ last'.conn > 0
  /\ \E k \in 1..Len(last'.effects) :
        last'.effects[k].op = "emit" /\ last'.effects[k].name \in Stages

\* C38: a datagram that makes the handler emit a stage event does so first;
\* the second effect is the store of that stage's slot, with the value the
\* event carried; everything after it is the next request (for rules, the
\* ping timestamp and the ping request) or, for ping, the completion check
\* ('done', the timer, the close), and a request is sent unless the stage
\* is ping.
C38_EmitStoreRequest ==
  [][StageStep =>
       LET es == last'.effects
           i  == last'.conn
           d  == Get(connections')[i]
       IN  /\ Len(es) >= 2
           /\ es[1].op = "emit" /\ es[1].name \in Stages /\ es[1].conn = i
           /\ es[2] = Store(es[1].name, i)
           /\ SlotOf(d, es[1].name) = es[1].data
           /\ \A k \in 3..Len(es) :
                IF es[1].name = "ping"
                THEN es[k] \in { Emit("done", 0, connections'), ClearTimeout, Close }
                ELSE es[k].op = "send" \/ es[k] = Store("_timestamp", i)
           /\ es[1].name # "ping" => es[Len(es)].op = "send"
           /\ (es[1].name = "ping" /\ Len(es) > 2) =>
                es = << es[1], es[2] >> \o checkIfDone(Get(connections'))]_vars

\* a ping echo was handled and completed the run
C38_PingCompleted ==
  /\ last.cb = "message"
  /\ last.msg = PingDatagram
  /\ Len(last.effects) = 5
  /\ last.effects[1].name = "ping"
  /\ last.effects[3].name = "done"

-----------------------------------------------------------------------------
(* The rules parser *)

\* the count a rules payload announces
AnnouncedRules(d) == I16(d[1], d[2])

\* C39: on every payload that holds the 2-byte count, whatever the count
\* (negative, or larger than the number of pairs present), the rules parser
\* returns without an error; it returns at most max(count, 0) pairs, and it
\* has consumed at least one byte of the payload for each pair, never
\* reading past the end.
C39_RulesParserBounded ==
  (arg.fn = "parseRules" /\ res # Undef) =>
    LET r == Get(res)
        n == AnnouncedRules(arg.data)
    IN  /\ r.ok
        /\ Len(r.v.rules) <= (IF n > 0 THEN n ELSE 0)
        /\ r.index >= 2 + Len(r.v.rules)
        /\ r.index <= Len(arg.data)

\* a payload that announces 32767 rules and holds two was parsed
C39_FewerPairsThanAnnounced ==
  /\ arg.fn = "parseRules"
  /\ res # Undef
  /\ AnnouncedRules(arg.data) = 32767
  /\ Len(Get(res).v.rules) = 2

=============================================================================
